---- MODULE Spec2Model ----
(***************************************************************************)
(* A model of src/emu.py: the 6502 CPU emulator (Registers, CPU) and the   *)
(* block-based memory management unit (MMU).                               *)
(*                                                                         *)
(* The machine is a record m with the registers (a, x, y, s, pc, p), the   *)
(* cycle counter cc, the MMU's block list, the exception raised so far     *)
(* (err, NoErr when none) and the list of MMU accesses made (trace).       *)
(* Every method of the source is an operator from machine to machine (or   *)
(* to a pair machine/value).  A Python exception propagates: once err is   *)
(* set, the operators that follow in the same call leave the machine as    *)
(* it is, and the mutations made before the raise are kept.                *)
(***************************************************************************)
EXTENDS Integers, Sequences, FiniteSets, TLC

VARIABLES
    a, x, y, s, pc, p,  \* Registers: accumulator, index registers, stack
                        \* pointer, program counter, status byte
    cc,                 \* CPU.cc, the cycles of the last step
    stack_page,         \* CPU.stack_page
    blocks,             \* MMU.blocks, in registration order
    hist,               \* the calls made so far, each with the state before it
    n                   \* the number of calls made so far

vars == <<a, x, y, s, pc, p, cc, stack_page, blocks, hist, n>>

----------------------------------------------------------------------------
(* Bounds of the model *)

\* number of CPU.step() calls explored from an initial state
MaxSteps == 2
\* number of blocks registered with one MMU
MaxBlocks == 2
\* number of direct MMU.read / MMU.write calls explored on one MMU
MaxCalls == 2

----------------------------------------------------------------------------
(* Python's integer operators on the values the program uses *)

RECURSIVE BitAnd(_, _)
\* v & w for naturals
BitAnd(v, w) ==
    IF v = 0 \/ w = 0 THEN 0
    ELSE (v % 2) * (w % 2) + 2 * BitAnd(v \div 2, w \div 2)

RECURSIVE BitOr(_, _)
\* v | w for naturals
BitOr(v, w) ==
    IF v = 0 THEN w
    ELSE IF w = 0 THEN v
    ELSE (IF v % 2 = 1 \/ w % 2 = 1 THEN 1 ELSE 0) + 2 * BitOr(v \div 2, w \div 2)

RECURSIVE BitXor(_, _)
\* v ^ w for naturals
BitXor(v, w) ==
    IF v = 0 THEN w
    ELSE IF w = 0 THEN v
    ELSE ((v + w) % 2) + 2 * BitXor(v \div 2, w \div 2)

\* v & 0xff for any integer (two's complement: the residue modulo 256)
Mask8(v) == v % 256

\* v & 0xffff for any integer
Mask16(v) == v % 65536

\* v & 0x80 for any integer, as a truth value
Bit7(v) == (v \div 128) % 2 = 1

\* math.floor(v / 0xff)
FloorDivFF(v) == v \div 255

NoErr == "none"

----------------------------------------------------------------------------
(* Naming a value: a Python local is assigned once and read many times *)

\* the element of a one-element set
The(S) == CHOOSE e \in S : TRUE

\* [r \in {e} |-> body] is the body with r naming the value of e, and
\* Bind gives the body's value: the assignment r = e followed by the body
Bind(fn) == The({g[The(DOMAIN g)] : g \in {fn}})

----------------------------------------------------------------------------
(* MMU *)

\* the overlap test of MMU.addBlock against one registered block b
OverlapTest(start, length, b) ==
    \/ (start + length > b.start /\ start + length < b.start + b.length)
    \/ (b.start + b.length > start /\ b.start + b.length < start + length)

\* MMU.addBlock(start, length, readonly, value, valueOffset) with value a
\* list of unsigned bytes (<<>> stands for None and for the empty list)
addBlock(m, start, length, readonly, value, valueOffset) ==
    IF m.err # NoErr THEN m
    ELSE IF \E i \in 1..Len(m.blocks) : OverlapTest(start, length, m.blocks[i])
    THEN [m EXCEPT !.err = "MemoryRangeError"]
    ELSE IF \E i \in 1..Len(value) : i - 1 + valueOffset >= length
    THEN [m EXCEPT !.err = "IndexError"]
    ELSE [m EXCEPT !.blocks = Append(@,
             [start |-> start, length |-> length, readonly |-> readonly,
              memory |-> [i \in 1..length |->
                             IF i - valueOffset \in 1..Len(value)
                             THEN value[i - valueOffset] ELSE 0]])]

\* MMU.getBlock(addr): the index of the first block holding addr, 0 when
\* the loop ends without one (IndexError)
getBlock(bs, addr) ==
    Bind([hits \in {{i \in 1..Len(bs) :
                        addr >= bs[i].start
                        /\ addr < bs[i].start + bs[i].length}} |->
        IF hits = {} THEN 0
        ELSE CHOOSE i \in hits : \A j \in hits : i <= j])

\* MMU.getIndex(block, addr)
getIndex(b, addr) == addr - b.start

\* MMU.write storing the value as given, not value & 0xff
mmu_write_unmasked(m, addr, value) ==
    IF m.err # NoErr THEN m
    ELSE Bind([bi \in {getBlock(m.blocks, addr)} |->
         Bind([t \in {[m EXCEPT !.trace = Append(@, <<"w", addr, value>>)]} |->
            IF bi = 0 THEN [t EXCEPT !.err = "IndexError"]
            ELSE IF t.blocks[bi].readonly
            THEN [t EXCEPT !.err = "ReadOnlyError"]
            ELSE [t EXCEPT
                     !.blocks[bi].memory[getIndex(t.blocks[bi], addr) + 1]
                         = value]])])

\* MMU.write(addr, value); the trace keeps every call, failed ones too
mmu_write(m, addr, value) ==
    IF m.err # NoErr THEN m
    ELSE Bind([bi \in {getBlock(m.blocks, addr)} |->
         Bind([t \in {[m EXCEPT
                         !.trace = Append(@, <<"w", addr, Mask8(value)>>)]} |->
            IF bi = 0 THEN [t EXCEPT !.err = "IndexError"]
            ELSE IF t.blocks[bi].readonly
            THEN [t EXCEPT !.err = "ReadOnlyError"]
            ELSE [t EXCEPT
                     !.blocks[bi].memory[getIndex(t.blocks[bi], addr) + 1]
                         = Mask8(value)]])])

\* MMU.read(addr): the machine (err set when no block holds addr) and the byte
mmu_read(m, addr) ==
    IF m.err # NoErr THEN [m |-> m, v |-> 0]
    ELSE Bind([bi \in {getBlock(m.blocks, addr)} |->
         Bind([t \in {[m EXCEPT !.trace = Append(@, <<"r", addr>>)]} |->
            IF bi = 0 THEN [m |-> [t EXCEPT !.err = "IndexError"], v |-> 0]
            ELSE [m |-> t,
                  v |-> t.blocks[bi].memory[
                            getIndex(t.blocks[bi], addr) + 1]]])])

\* MMU.readWord(addr): low byte at addr, high byte at addr + 1
mmu_readWord(m, addr) ==
    Bind([lo \in {mmu_read(m, addr)} |->
    Bind([hi \in {mmu_read(lo.m, addr + 1)} |->
        [m |-> hi.m, v |-> hi.v * 256 + lo.v]])])

\* MMU.__init__(blocks): addBlock for each descriptor in order
RECURSIVE MMU(_, _)
MMU(m, descs) ==
    IF descs = <<>> THEN m
    ELSE Bind([m1 \in {addBlock(m, descs[1][1], descs[1][2], descs[1][3],
                                descs[1][4], descs[1][5])} |->
             MMU(m1, Tail(descs))])

----------------------------------------------------------------------------
(* Registers *)

\* Registers.flagBit
flagBit == [N |-> 128, V |-> 64, B |-> 16, D |-> 8, I |-> 4, Z |-> 2, C |-> 1]

FlagNames == {"N", "V", "B", "D", "I", "Z", "C"}

\* Registers.getFlag(flag)
getFlag(m, flag) == BitAnd(m.p, flagBit[flag]) # 0

\* clearFlag flipping the flag's bit instead of masking it off
clearFlag_toggles(m, flag) == [m EXCEPT !.p = BitXor(@, flagBit[flag])]

\* Registers.clearFlag(flag)
clearFlag(m, flag) == [m EXCEPT !.p = BitAnd(@, 255 - flagBit[flag])]

\* Registers.setFlag(flag, v), v the truth value of the argument
setFlag(m, flag, v) ==
    IF v THEN [m EXCEPT !.p = BitOr(@, flagBit[flag])]
    ELSE clearFlag(m, flag)

\* Registers.ZN(v)
ZN(m, v) == setFlag(setFlag(m, "Z", v = 0), "N", Bit7(v))

\* Registers.reset(pc): the register values of a new register file
reset(m, pc0) ==
    [m EXCEPT !.a = 0, !.x = 0, !.y = 0, !.s = 255, !.pc = pc0, !.p = 36]

\* True as 1 and False as 0, where the source adds a flag to a number
AsInt(b) == IF b THEN 1 ELSE 0

----------------------------------------------------------------------------
(* CPU: fetch, stack, conversions *)

Ret(m, v) == [m |-> m, v |-> v]

\* CPU.nextByte()
nextByte(m) ==
    Bind([r \in {mmu_read(m, m.pc)} |->
        IF r.m.err # NoErr THEN r
        ELSE Ret([r.m EXCEPT !.pc = @ + 1], r.v)])

\* CPU.nextWord()
nextWord(m) ==
    Bind([low \in {nextByte(m)} |->
    Bind([high \in {nextByte(low.m)} |->
        Ret(high.m, high.v * 256 + low.v)])])

\* CPU.stackPush decrementing s without the & 0xff
stackPush_unwrapped(m, v) ==
    Bind([w \in {mmu_write(m, m.stack_page * 256 + m.s, v)} |->
        IF w.err # NoErr THEN w
        ELSE [w EXCEPT !.s = @ - 1]])

\* CPU.stackPush(v)
stackPush(m, v) ==
    Bind([w \in {mmu_write(m, m.stack_page * 256 + m.s, v)} |->
        IF w.err # NoErr THEN w
        ELSE [w EXCEPT !.s = Mask8(@ - 1)]])

\* CPU.stackPushWord(v): v >> 8 first, then v & 0xff
stackPushWord(m, v) ==
    Bind([m1 \in {stackPush(m, v \div 256)} |-> stackPush(m1, Mask8(v))])

\* stackPop reading at s before incrementing it
stackPop_readsBelow(m) ==
    Bind([r \in {mmu_read(m, m.stack_page * 256 + m.s)} |->
        IF r.m.err # NoErr THEN r
        ELSE Ret([r.m EXCEPT !.s = Mask8(@ + 1)], r.v)])

\* stackPop zeroing the slot it read
stackPop_clearing(m) ==
    Bind([r \in {mmu_read(m, m.stack_page * 256 + Mask8(m.s + 1))} |->
        IF r.m.err # NoErr THEN r
        ELSE Bind([w \in {mmu_write(r.m,
                                    m.stack_page * 256 + Mask8(m.s + 1),
                                    0)} |->
                 IF w.err # NoErr THEN Ret(w, r.v)
                 ELSE Ret([w EXCEPT !.s = Mask8(@ + 1)], r.v)])])

\* CPU.stackPop()
stackPop(m) ==
    Bind([r \in {mmu_read(m, m.stack_page * 256 + Mask8(m.s + 1))} |->
        IF r.m.err # NoErr THEN r
        ELSE Ret([r.m EXCEPT !.s = Mask8(@ + 1)], r.v)])

\* CPU.stackPopWord(): the first pop is the low byte
stackPopWord(m) ==
    Bind([low \in {stackPop(m)} |->
    Bind([high \in {stackPop(low.m)} |->
        Ret(high.m, low.v + high.v * 256)])])

\* CPU.fromBCD(v)
fromBCD(v) == (BitAnd(v, 240) \div 16) * 10 + BitAnd(v, 15)

\* CPU.toBCD giving the number itself, not its two decimal digits
toBCD_binary(v) == v

\* CPU.toBCD(v)
toBCD(v) == (v \div 10) * 16 + (v % 10)

\* fromTwosCom reading the byte as unsigned
fromTwosCom_unsigned(v) == v

\* CPU.fromTwosCom(v)
fromTwosCom(v) == BitAnd(v, 127) - BitAnd(v, 128)

\* CPU.interrupts
interrupts == [ABORT |-> 65528, COP |-> 65524, IRQ |-> 65534,
               BRK |-> 65534, NMI |-> 65530, RESET |-> 65532]

\* CPU.interruptAddress(i)
interruptAddress(m, i) == mmu_readWord(m, interrupts[i])

----------------------------------------------------------------------------
(* CPU: addressing modes.  Each gives the machine after the operand fetch  *)
(* and the address (the _a modes) or the value read there.                 *)

z_a(m) == nextByte(m)

zx_a(m) == Bind([b \in {nextByte(m)} |-> Ret(b.m, Mask8(b.v + b.m.x))])

zy_a(m) == Bind([b \in {nextByte(m)} |-> Ret(b.m, Mask8(b.v + b.m.y))])

a_a(m) == nextWord(m)

\* the page test comparing the high bytes of the base and of the sum
Indexed_byHighByte(r, i) ==
    IF r.m.err # NoErr THEN r
    ELSE Ret(IF r.v \div 256 # (r.v + i) \div 256
             THEN [r.m EXCEPT !.cc = @ + 1] ELSE r.m,
             Mask16(r.v + i))

\* the page test shared by ax_a, ay_a and iy_a: r.v the base o, i the index
Indexed(r, i) ==
    IF r.m.err # NoErr THEN r
    ELSE Ret(IF FloorDivFF(r.v) # FloorDivFF(r.v + i)
             THEN [r.m EXCEPT !.cc = @ + 1] ELSE r.m,
             Mask16(r.v + i))

ax_a(m) == Bind([o \in {nextWord(m)} |-> Indexed(o, o.m.x)])

ay_a(m) == Bind([o \in {nextWord(m)} |-> Indexed(o, o.m.y)])

\* i_a reading the high byte at i + 1 whatever the low byte of i
i_a_carries(m) ==
    Bind([w \in {nextWord(m)} |->
    Bind([hi \in {mmu_read(w.m, w.v + 1)} |->
    Bind([lo \in {mmu_read(hi.m, w.v)} |->
        Ret(lo.m, Mask16(hi.v * 256 + lo.v))])])])

i_a(m) ==
    Bind([w \in {nextWord(m)} |->
    Bind([j \in {IF BitAnd(w.v, 255) = 255 THEN w.v - 255 ELSE w.v + 1} |->
    Bind([hi \in {mmu_read(w.m, j)} |->
    Bind([lo \in {mmu_read(hi.m, w.v)} |->
        Ret(lo.m, Mask16(hi.v * 256 + lo.v))])])])])

ix_a(m) ==
    Bind([b \in {nextByte(m)} |->
    Bind([i \in {Mask8(b.v + b.m.x)} |->
    Bind([hi \in {mmu_read(b.m, Mask8(i + 1))} |->
    Bind([lo \in {mmu_read(hi.m, i)} |->
        Ret(lo.m, Mask16(hi.v * 256 + lo.v))])])])])

iy_a(m) ==
    Bind([b \in {nextByte(m)} |->
    Bind([hi \in {mmu_read(b.m, Mask8(b.v + 1))} |->
    Bind([lo \in {mmu_read(hi.m, b.v)} |->
    Bind([o \in {Ret(lo.m, hi.v * 256 + lo.v)} |->
        Indexed(o, o.m.y)])])])])

\* the value modes: self.mmu.read(self.<mode>_a())
Deref(ad) == Bind([r \in {ad} |-> mmu_read(r.m, r.v)])

im(m) == nextByte(m)

z(m) == Deref(z_a(m))

zx(m) == Deref(zx_a(m))

zy(m) == Deref(zy_a(m))

a_(m) == Deref(a_a(m))

ax(m) == Deref(ax_a(m))

ay(m) == Deref(ay_a(m))

i_(m) == Deref(i_a(m))

ix(m) == Deref(ix_a(m))

iy(m) == Deref(iy_a(m))

----------------------------------------------------------------------------
(* CPU: the operations.  v is the operand value of a value operation and   *)
(* ad the operand address of an address operation; the operations of a     *)
(* table entry with a target get the target, a tuple.                      *)

Ok(m) == m.err = NoErr

\* bit 7 of (~(v1 ^ v2)) & (v1 ^ r), r any integer
AdcOverflow(v1, v2, r) == Bit7(v1) = Bit7(v2) /\ Bit7(v1) # Bit7(r)

\* bit 7 of (v1 ^ v2) & (v1 ^ r), r any integer
SbcOverflow(v1, v2, r) == Bit7(v1) # Bit7(v2) /\ Bit7(v1) # Bit7(r)

\* ADC adding without the carry flag
ADC_noCarryIn(m, v2) ==
    LET v1 == m.a
        decimal == getFlag(m, "D")
    IN
    Bind([r \in {IF decimal
                 THEN fromBCD(v1) + fromBCD(v2)
                 ELSE v1 + v2} |->
    Bind([m1 \in {IF decimal
                  THEN setFlag([m EXCEPT !.a = toBCD(r % 100)], "C", r > 99)
                  ELSE setFlag([m EXCEPT !.a = Mask8(r)], "C", r > 255)} |->
        setFlag(ZN(m1, m1.a), "V", AdcOverflow(v1, v2, r))])])

ADC(m, v2) ==
    LET v1 == m.a
        decimal == getFlag(m, "D")
    IN
    Bind([r \in {IF decimal
                 THEN fromBCD(v1) + fromBCD(v2) + AsInt(getFlag(m, "C"))
                 ELSE v1 + v2 + AsInt(getFlag(m, "C"))} |->
    Bind([m1 \in {IF decimal
                  THEN setFlag([m EXCEPT !.a = toBCD(r % 100)], "C", r > 99)
                  ELSE setFlag([m EXCEPT !.a = Mask8(r)], "C", r > 255)} |->
        setFlag(ZN(m1, m1.a), "V", AdcOverflow(v1, v2, r))])])

AND(m, v) ==
    Bind([m1 \in {[m EXCEPT !.a = Mask8(BitAnd(m.a, v))]} |-> ZN(m1, m1.a)])

ASL(m, ad, target) ==
    IF target = <<"a">>
    THEN LET v == m.a * 2 IN
         ZN(setFlag([m EXCEPT !.a = Mask8(v)], "C", v > 255), Mask8(v))
    ELSE Bind([r \in {mmu_read(m, ad)} |->
         Bind([w \in {mmu_write(r.m, ad, r.v * 2)} |->
            IF ~Ok(w) THEN w
            ELSE ZN(setFlag(w, "C", r.v * 2 > 255), Mask8(r.v * 2))])])

BIT(m, v) ==
    setFlag(setFlag(setFlag(m, "Z", BitAnd(m.a, v) = 0), "N", Bit7(v)),
            "V", BitAnd(v, 64) # 0)

\* B(v), v the target (flag, boolean)
B(m, target) ==
    Bind([d \in {im(m)} |->
        IF ~Ok(d.m) THEN d.m
        ELSE IF getFlag(d.m, target[1]) = target[2]
        THEN LET o == d.m.pc
                 m1 == [d.m EXCEPT !.pc = @ + fromTwosCom(d.v)]
             IN IF FloorDivFF(o) = FloorDivFF(m1.pc)
                THEN [m1 EXCEPT !.cc = @ + 1]
                ELSE [m1 EXCEPT !.cc = @ + 2]
        ELSE d.m])

\* BRK pushing pc, not pc + 1
BRK_pushesPc(m) ==
    Bind([m1 \in {setFlag(m, "B", TRUE)} |->
    Bind([m2 \in {stackPushWord(m1, m1.pc)} |->
    Bind([m3 \in {stackPush(m2, m2.p)} |->
        IF ~Ok(m3) THEN m3
        ELSE Bind([m4 \in {setFlag(m3, "I", TRUE)} |->
             Bind([t \in {interruptAddress(m4, "BRK")} |->
                 IF ~Ok(t.m) THEN t.m
                 ELSE [t.m EXCEPT !.pc = t.v]])])])])])

BRK(m) ==
    Bind([m1 \in {setFlag(m, "B", TRUE)} |->
    Bind([m2 \in {stackPushWord(m1, m1.pc + 1)} |->
    Bind([m3 \in {stackPush(m2, m2.p)} |->
        IF ~Ok(m3) THEN m3
        ELSE Bind([m4 \in {setFlag(m3, "I", TRUE)} |->
             Bind([t \in {interruptAddress(m4, "BRK")} |->
                 IF ~Ok(t.m) THEN t.m
                 ELSE [t.m EXCEPT !.pc = t.v]])])])])])

\* CP setting the carry on v < r, not v <= r
CP_strictCarry(m, r, v) ==
    LET o == Mask8(r - v) IN
    setFlag(setFlag(setFlag(m, "Z", o = 0), "C", v < r), "N", Bit7(o))

CP(m, r, v) ==
    LET o == Mask8(r - v) IN
    setFlag(setFlag(setFlag(m, "Z", o = 0), "C", v <= r), "N", Bit7(o))

CMP(m, v) == CP(m, m.a, v)

CPX(m, v) == CP(m, m.x, v)

CPY(m, v) == CP(m, m.y, v)

DEC(m, ad) ==
    Bind([r \in {mmu_read(m, ad)} |->
    Bind([w \in {mmu_write(r.m, ad, Mask8(r.v - 1))} |->
        IF ~Ok(w) THEN w ELSE ZN(w, Mask8(r.v - 1))])])

DEX(m) == Bind([m1 \in {[m EXCEPT !.x = Mask8(@ - 1)]} |-> ZN(m1, m1.x)])

DEY(m) == Bind([m1 \in {[m EXCEPT !.y = Mask8(@ - 1)]} |-> ZN(m1, m1.y)])

EOR(m, v) == Bind([m1 \in {[m EXCEPT !.a = BitXor(@, v)]} |-> ZN(m1, m1.a)])

\* SE(v), v the target flag
SE(m, target) == setFlag(m, target[1], TRUE)

\* CL(v), v the target flag
CL(m, target) == clearFlag(m, target[1])

INC(m, ad) ==
    Bind([r \in {mmu_read(m, ad)} |->
    Bind([w \in {mmu_write(r.m, ad, Mask8(r.v + 1))} |->
        IF ~Ok(w) THEN w ELSE ZN(w, Mask8(r.v + 1))])])

INX(m) == Bind([m1 \in {[m EXCEPT !.x = Mask8(@ + 1)]} |-> ZN(m1, m1.x)])

INY(m) == Bind([m1 \in {[m EXCEPT !.y = Mask8(@ + 1)]} |-> ZN(m1, m1.y)])

JMP(m, ad) == [m EXCEPT !.pc = ad]

JSR(m, ad) ==
    Bind([m1 \in {stackPushWord(m, m.pc - 1)} |->
        IF ~Ok(m1) THEN m1 ELSE [m1 EXCEPT !.pc = ad]])

LDA(m, v) == Bind([m1 \in {[m EXCEPT !.a = v]} |-> ZN(m1, m1.a)])

LDX(m, v) == Bind([m1 \in {[m EXCEPT !.x = v]} |-> ZN(m1, m1.x)])

LDY(m, v) == Bind([m1 \in {[m EXCEPT !.y = v]} |-> ZN(m1, m1.y)])

LSR(m, ad, target) ==
    IF target = <<"a">>
    THEN Bind([m1 \in {setFlag(m, "C", BitAnd(m.a, 1) # 0)} |->
            ZN([m1 EXCEPT !.a = m1.a \div 2], m1.a \div 2)])
    ELSE Bind([r \in {mmu_read(m, ad)} |->
            IF ~Ok(r.m) THEN r.m
            ELSE Bind([m1 \in {setFlag(r.m, "C", BitAnd(r.v, 1) # 0)} |->
                 Bind([w \in {mmu_write(m1, ad, r.v \div 2)} |->
                     IF ~Ok(w) THEN w ELSE ZN(w, r.v \div 2)])])])

NOP(m) == m

ORA(m, v) == Bind([m1 \in {[m EXCEPT !.a = BitOr(@, v)]} |-> ZN(m1, m1.a)])

\* getattr(self.r, r) for the register names the table uses
getattr(m, r) ==
    CASE r = "a" -> m.a
      [] r = "x" -> m.x
      [] r = "y" -> m.y
      [] r = "s" -> m.s
      [] r = "p" -> m.p

\* setattr(self.r, r, v)
setattr(m, r, v) ==
    CASE r = "a" -> [m EXCEPT !.a = v]
      [] r = "x" -> [m EXCEPT !.x = v]
      [] r = "y" -> [m EXCEPT !.y = v]
      [] r = "s" -> [m EXCEPT !.s = v]
      [] r = "p" -> [m EXCEPT !.p = v]

\* P(v), v the target (action, register)
P(m, target) ==
    LET act == target[1]
        r == target[2]
    IN IF act = "PH" THEN stackPush(m, getattr(m, r))
       ELSE Bind([t \in {stackPop(m)} |->
               IF ~Ok(t.m) THEN t.m
               ELSE Bind([m1 \in {setattr(t.m, r, t.v)} |->
                        IF r = "a" THEN ZN(m1, m1.a)
                        ELSE IF r = "p" THEN [m1 EXCEPT !.p = BitOr(@, 32)]
                        ELSE m1])])

ROL(m, ad, target) ==
    IF target = <<"a">>
    THEN LET v_old == m.a
             v_new == Mask8(v_old * 2 + AsInt(getFlag(m, "C")))
         IN ZN(setFlag([m EXCEPT !.a = v_new], "C", Bit7(v_old)), v_new)
    ELSE Bind([r \in {mmu_read(m, ad)} |->
         Bind([v_new \in {Mask8(r.v * 2 + AsInt(getFlag(r.m, "C")))} |->
         Bind([w \in {mmu_write(r.m, ad, v_new)} |->
            IF ~Ok(w) THEN w
            ELSE ZN(setFlag(w, "C", Bit7(r.v)), v_new)])])])

ROR(m, ad, target) ==
    IF target = <<"a">>
    THEN LET v_old == m.a
             v_new == Mask8(v_old \div 2 + AsInt(getFlag(m, "C")) * 128)
         IN ZN(setFlag([m EXCEPT !.a = v_new], "C", BitAnd(v_old, 1) # 0),
               v_new)
    ELSE Bind([r \in {mmu_read(m, ad)} |->
         Bind([v_new \in {Mask8(r.v \div 2
                                + AsInt(getFlag(r.m, "C")) * 128)} |->
         Bind([w \in {mmu_write(r.m, ad, v_new)} |->
            IF ~Ok(w) THEN w
            ELSE ZN(setFlag(w, "C", BitAnd(r.v, 1) # 0), v_new)])])])

\* RTI adding 1 to the popped word, as RTS does
RTI_incrementsPc(m) ==
    Bind([t \in {stackPop(m)} |->
        IF ~Ok(t.m) THEN t.m
        ELSE Bind([w \in {stackPopWord([t.m EXCEPT !.p = t.v])} |->
                 IF ~Ok(w.m) THEN w.m
                 ELSE [w.m EXCEPT !.pc = Mask16(w.v + 1)]])])

RTI(m) ==
    Bind([t \in {stackPop(m)} |->
        IF ~Ok(t.m) THEN t.m
        ELSE Bind([w \in {stackPopWord([t.m EXCEPT !.p = t.v])} |->
                 IF ~Ok(w.m) THEN w.m
                 ELSE [w.m EXCEPT !.pc = w.v]])])

\* RTS without the + 1
RTS_noIncrement(m) ==
    Bind([w \in {stackPopWord(m)} |->
        IF ~Ok(w.m) THEN w.m
        ELSE [w.m EXCEPT !.pc = Mask16(w.v)]])

RTS(m) ==
    Bind([w \in {stackPopWord(m)} |->
        IF ~Ok(w.m) THEN w.m
        ELSE [w.m EXCEPT !.pc = Mask16(w.v + 1)]])

\* SBC re-encoding the decimal difference without the % 100
SBC_noModulo(m, v2) ==
    LET v1 == m.a
        decimal == getFlag(m, "D")
        borrow == AsInt(~getFlag(m, "C"))
    IN
    Bind([r \in {IF decimal
                 THEN fromBCD(v1) - fromBCD(v2) - borrow
                 ELSE v1 - v2 - borrow} |->
    Bind([m1 \in {IF decimal
                  THEN [m EXCEPT !.a = toBCD(r)]
                  ELSE [m EXCEPT !.a = Mask8(r)]} |->
        ZN(setFlag(setFlag(m1, "C", r >= 0), "V", SbcOverflow(v1, v2, r)),
           m1.a)])])

\* SBC setting the carry on r > 0, not r >= 0
SBC_carryOnPositive(m, v2) ==
    LET v1 == m.a
        decimal == getFlag(m, "D")
        borrow == AsInt(~getFlag(m, "C"))
    IN
    Bind([r \in {IF decimal
                 THEN fromBCD(v1) - fromBCD(v2) - borrow
                 ELSE v1 - v2 - borrow} |->
    Bind([m1 \in {IF decimal
                  THEN [m EXCEPT !.a = toBCD(r % 100)]
                  ELSE [m EXCEPT !.a = Mask8(r)]} |->
        ZN(setFlag(setFlag(m1, "C", r > 0), "V", SbcOverflow(v1, v2, r)),
           m1.a)])])

SBC(m, v2) ==
    LET v1 == m.a
        decimal == getFlag(m, "D")
        borrow == AsInt(~getFlag(m, "C"))
    IN
    Bind([r \in {IF decimal
                 THEN fromBCD(v1) - fromBCD(v2) - borrow
                 ELSE v1 - v2 - borrow} |->
    Bind([m1 \in {IF decimal
                  THEN [m EXCEPT !.a = toBCD(r % 100)]
                  ELSE [m EXCEPT !.a = Mask8(r)]} |->
        ZN(setFlag(setFlag(m1, "C", r >= 0), "V", SbcOverflow(v1, v2, r)),
           m1.a)])])

STA(m, ad) == mmu_write(m, ad, m.a)

STX(m, ad) == mmu_write(m, ad, m.x)

STY(m, ad) == mmu_write(m, ad, m.y)

\* T(a), a the target (source, destination)
T(m, target) ==
    LET src == target[1]
        d == target[2]
    IN Bind([m1 \in {setattr(m, d, getattr(m, src))} |->
           IF d # "s" THEN ZN(m1, getattr(m1, d)) ELSE m1])

----------------------------------------------------------------------------
(* CPU: the instruction table and the dispatch table built from it *)

\* CPU._ops: (operation, operand class, list of (addressing mode, base
\* cycles, opcodes, target)); <<>> is the target None
OpsTable == <<
    <<"ADC", "v", <<
        <<"im", 2, <<\h69>>, <<>> >>,
        <<"z", 3, <<\h65>>, <<>> >>,
        <<"zx", 4, <<\h75>>, <<>> >>,
        <<"a", 4, <<\h6D>>, <<>> >>,
        <<"ax", 4, <<\h7D>>, <<>> >>,
        <<"ay", 4, <<\h79>>, <<>> >>,
        <<"ix", 6, <<\h61>>, <<>> >>,
        <<"iy", 5, <<\h71>>, <<>> >>
    >> >>,
    <<"AND", "v", <<
        <<"im", 2, <<\h29>>, <<>> >>,
        <<"z", 3, <<\h25>>, <<>> >>,
        <<"zx", 4, <<\h35>>, <<>> >>,
        <<"a", 4, <<\h2D>>, <<>> >>,
        <<"ax", 4, <<\h3D>>, <<>> >>,
        <<"ay", 4, <<\h39>>, <<>> >>,
        <<"ix", 6, <<\h21>>, <<>> >>,
        <<"iy", 5, <<\h31>>, <<>> >>
    >> >>,
    <<"ASL", "a", <<
        <<"im", 2, <<\h0A>>, <<"a">>>>,
        <<"z", 5, <<\h06>>, <<>> >>,
        <<"zx", 6, <<\h16>>, <<>> >>,
        <<"a", 6, <<\h0E>>, <<>> >>,
        <<"ax", 7, <<\h1E>>, <<>> >>
    >> >>,
    <<"B", "v", <<
        <<"PL", 2, <<\h10>>, <<"N", FALSE>>>>,
        <<"MI", 2, <<\h30>>, <<"N", TRUE>>>>,
        <<"VC", 2, <<\h50>>, <<"V", FALSE>>>>,
        <<"VC", 2, <<\h70>>, <<"V", TRUE>>>>,
        <<"CC", 2, <<\h90>>, <<"C", FALSE>>>>,
        <<"CS", 2, <<\hB0>>, <<"C", TRUE>>>>,
        <<"NE", 2, <<\hD0>>, <<"Z", FALSE>>>>,
        <<"EQ", 2, <<\hF0>>, <<"Z", TRUE>>>>
    >> >>,
    <<"BIT", "v", <<
        <<"z", 3, <<\h24>>, <<>> >>,
        <<"a", 4, <<\h2C>>, <<>> >>
    >> >>,
    <<"BRK", "v", <<
        <<"im", 7, <<\h00>>, <<1>>>>
    >> >>,
    <<"CMP", "v", <<
        <<"im", 2, <<\hC9>>, <<>> >>,
        <<"z", 3, <<\hC5>>, <<>> >>,
        <<"zx", 4, <<\hD5>>, <<>> >>,
        <<"a", 4, <<\hCD>>, <<>> >>,
        <<"ax", 4, <<\hDD>>, <<>> >>,
        <<"ay", 4, <<\hD9>>, <<>> >>,
        <<"ix", 6, <<\hC1>>, <<>> >>,
        <<"iy", 5, <<\hD1>>, <<>> >>
    >> >>,
    <<"CPX", "v", <<
        <<"im", 2, <<\hE0>>, <<>> >>,
        <<"z", 3, <<\hE4>>, <<>> >>,
        <<"a", 4, <<\hEC>>, <<>> >>
    >> >>,
    <<"CPY", "v", <<
        <<"im", 2, <<\hC0>>, <<>> >>,
        <<"z", 3, <<\hC4>>, <<>> >>,
        <<"a", 4, <<\hCC>>, <<>> >>
    >> >>,
    <<"DEC", "a", <<
        <<"z", 5, <<\hC6>>, <<>> >>,
        <<"zx", 6, <<\hD6>>, <<>> >>,
        <<"a", 6, <<\hCE>>, <<>> >>,
        <<"ax", 7, <<\hDE>>, <<>> >>
    >> >>,
    <<"DEX", "a", <<
        <<"im", 2, <<\hCA>>, <<1>>>>
    >> >>,
    <<"DEY", "a", <<
        <<"im", 2, <<\h88>>, <<1>>>>
    >> >>,
    <<"EOR", "v", <<
        <<"im", 2, <<\h49>>, <<>> >>,
        <<"z", 3, <<\h45>>, <<>> >>,
        <<"zx", 4, <<\h55>>, <<>> >>,
        <<"a", 4, <<\h4D>>, <<>> >>,
        <<"ax", 4, <<\h5D>>, <<>> >>,
        <<"ay", 4, <<\h59>>, <<>> >>,
        <<"ix", 6, <<\h41>>, <<>> >>,
        <<"iy", 5, <<\h51>>, <<>> >>
    >> >>,
    <<"CL", "v", <<
        <<"C", 2, <<\h18>>, <<"C">>>>,
        <<"I", 2, <<\h58>>, <<"I">>>>,
        <<"V", 2, <<\hB8>>, <<"V">>>>,
        <<"D", 2, <<\hD8>>, <<"D">>>>
    >> >>,
    <<"SE", "v", <<
        <<"C", 2, <<\h38>>, <<"C">>>>,
        <<"I", 2, <<\h78>>, <<"I">>>>,
        <<"D", 2, <<\hF8>>, <<"D">>>>
    >> >>,
    <<"INC", "a", <<
        <<"z", 5, <<\hE6>>, <<>> >>,
        <<"zx", 6, <<\hF6>>, <<>> >>,
        <<"a", 6, <<\hEE>>, <<>> >>,
        <<"ax", 7, <<\hFE>>, <<>> >>
    >> >>,
    <<"INX", "a", <<
        <<"im", 2, <<\hE8>>, <<1>>>>
    >> >>,
    <<"INY", "a", <<
        <<"im", 2, <<\hC8>>, <<1>>>>
    >> >>,
    <<"JMP", "a", <<
        <<"a", 3, <<\h4C>>, <<>> >>,
        <<"i", 5, <<\h6C>>, <<>> >>
    >> >>,
    <<"JSR", "a", <<
        <<"a", 6, <<\h20>>, <<>> >>
    >> >>,
    <<"LDA", "v", <<
        <<"im", 2, <<\hA9>>, <<>> >>,
        <<"z", 3, <<\hA5>>, <<>> >>,
        <<"zx", 4, <<\hB5>>, <<>> >>,
        <<"a", 4, <<\hAD>>, <<>> >>,
        <<"ax", 4, <<\hBD>>, <<>> >>,
        <<"ay", 4, <<\hB9>>, <<>> >>,
        <<"ix", 6, <<\hA1>>, <<>> >>,
        <<"iy", 5, <<\hB1>>, <<>> >>
    >> >>,
    <<"LDX", "v", <<
        <<"im", 2, <<\hA2>>, <<>> >>,
        <<"z", 3, <<\hA6>>, <<>> >>,
        <<"zy", 4, <<\hB6>>, <<>> >>,
        <<"a", 4, <<\hAE>>, <<>> >>,
        <<"ay", 4, <<\hBE>>, <<>> >>
    >> >>,
    <<"LDY", "v", <<
        <<"im", 2, <<\hA0>>, <<>> >>,
        <<"z", 3, <<\hA4>>, <<>> >>,
        <<"zx", 4, <<\hB4>>, <<>> >>,
        <<"a", 4, <<\hAC>>, <<>> >>,
        <<"ax", 4, <<\hBC>>, <<>> >>
    >> >>,
    <<"LSR", "a", <<
        <<"im", 2, <<\h4A>>, <<"a">>>>,
        <<"z", 5, <<\h46>>, <<>> >>,
        <<"zx", 6, <<\h56>>, <<>> >>,
        <<"a", 6, <<\h4E>>, <<>> >>,
        <<"ax", 7, <<\h5E>>, <<>> >>
    >> >>,
    <<"NOP", "v", <<
        <<"ip", 2, <<\h1A, \h3A, \h5A, \h7A, \hDA, \hEA, \hFA>>, <<1>>>>,
        <<"im", 2, <<\h80, \h82, \h89, \hC2, \hE2>>, <<>> >>,
        <<"z", 3, <<\h04, \h44, \h64>>, <<>> >>,
        <<"zx", 4, <<\h14, \h34, \h54, \h74, \hD4, \hF4>>, <<>> >>,
        <<"a", 4, <<\h0C>>, <<>> >>,
        <<"ax", 4, <<\h1C, \h3C, \h5C, \h7C, \hDC, \hFC>>, <<>> >>
    >> >>,
    <<"ORA", "v", <<
        <<"im", 2, <<\h09>>, <<>> >>,
        <<"z", 3, <<\h05>>, <<>> >>,
        <<"zx", 4, <<\h15>>, <<>> >>,
        <<"a", 4, <<\h0D>>, <<>> >>,
        <<"ax", 4, <<\h1D>>, <<>> >>,
        <<"ay", 4, <<\h19>>, <<>> >>,
        <<"ix", 6, <<\h01>>, <<>> >>,
        <<"iy", 5, <<\h11>>, <<>> >>
    >> >>,
    <<"P", "a", <<
        <<"PHA", 3, <<\h48>>, <<"PH", "a">>>>,
        <<"PLA", 4, <<\h68>>, <<"PL", "a">>>>,
        <<"PHP", 3, <<\h08>>, <<"PH", "p">>>>,
        <<"PLP", 4, <<\h28>>, <<"PL", "p">>>>
    >> >>,
    <<"T", "a", <<
        <<"AX", 2, <<\hAA>>, <<"a", "x">>>>,
        <<"XA", 2, <<\h8A>>, <<"x", "a">>>>,
        <<"AY", 2, <<\hA8>>, <<"a", "y">>>>,
        <<"YA", 2, <<\h98>>, <<"y", "a">>>>,
        <<"XS", 2, <<\h9A>>, <<"x", "s">>>>,
        <<"SX", 2, <<\hBA>>, <<"s", "x">>>>
    >> >>,
    <<"ROL", "a", <<
        <<"im", 2, <<\h2A>>, <<"a">>>>,
        <<"z", 5, <<\h26>>, <<>> >>,
        <<"zx", 6, <<\h36>>, <<>> >>,
        <<"a", 6, <<\h2E>>, <<>> >>,
        <<"ax", 7, <<\h3E>>, <<>> >>
    >> >>,
    <<"ROR", "a", <<
        <<"im", 2, <<\h6A>>, <<"a">>>>,
        <<"z", 5, <<\h66>>, <<>> >>,
        <<"zx", 6, <<\h76>>, <<>> >>,
        <<"a", 6, <<\h6E>>, <<>> >>,
        <<"ax", 7, <<\h7E>>, <<>> >>
    >> >>,
    <<"RTI", "a", <<
        <<"im", 6, <<\h40>>, <<1>>>>
    >> >>,
    <<"RTS", "a", <<
        <<"im", 6, <<\h60>>, <<1>>>>
    >> >>,
    <<"SBC", "v", <<
        <<"im", 2, <<\hE9, \hEB>>, <<>> >>,
        <<"z", 3, <<\hE5>>, <<>> >>,
        <<"zx", 4, <<\hF5>>, <<>> >>,
        <<"a", 4, <<\hED>>, <<>> >>,
        <<"ax", 4, <<\hFD>>, <<>> >>,
        <<"ay", 4, <<\hF9>>, <<>> >>,
        <<"ix", 6, <<\hE1>>, <<>> >>,
        <<"iy", 5, <<\hF1>>, <<>> >>
    >> >>,
    <<"STA", "a", <<
        <<"z", 3, <<\h85>>, <<>> >>,
        <<"zx", 4, <<\h95>>, <<>> >>,
        <<"a", 4, <<\h8D>>, <<>> >>,
        <<"ax", 5, <<\h9D>>, <<>> >>,
        <<"ay", 5, <<\h99>>, <<>> >>,
        <<"ix", 6, <<\h81>>, <<>> >>,
        <<"iy", 6, <<\h91>>, <<>> >>
    >> >>,
    <<"STX", "a", <<
        <<"z", 3, <<\h86>>, <<>> >>,
        <<"zy", 4, <<\h96>>, <<>> >>,
        <<"a", 4, <<\h8E>>, <<>> >>
    >> >>,
    <<"STY", "a", <<
        <<"z", 3, <<\h84>>, <<>> >>,
        <<"zx", 4, <<\h94>>, <<>> >>,
        <<"a", 4, <<\h8C>>, <<>> >>
    >> >>
>>

\* the (operation, addressing variant) pairs of the table
OpEntries ==
    UNION {{<<k, j>> : j \in 1..Len(OpsTable[k][3])} : k \in 1..Len(OpsTable)}

\* the opcodes of entry e
OpcodesOf(e) ==
    LET oc == OpsTable[e[1]][3][e[2]][3] IN {oc[q] : q \in 1..Len(oc)}

\* an empty slot of the dispatch table
None == [op |-> "None"]

\* CPU._create_ops: self.ops, the bound (operation, operand resolver, cycles)
\* of every opcode, None where no entry names the opcode
ops ==
    [o \in 0..255 |->
        LET hits == {e \in OpEntries : o \in OpcodesOf(e)} IN
        IF hits = {} THEN None
        ELSE LET e == CHOOSE h \in hits : TRUE
                 ad == OpsTable[e[1]][3][e[2]]
             IN [op |-> OpsTable[e[1]][1], atype |-> OpsTable[e[1]][2],
                 mode |-> ad[1], cc |-> ad[2], target |-> ad[4]]]

\* CPU._create_ops raises when an opcode is bound twice
DuplicateOpcodes ==
    {o \in 0..255 : Cardinality({e \in OpEntries : o \in OpcodesOf(e)}) > 1}

\* getattr(self, a): the value-producing addressing mode named a
ValueMode(m, mode) ==
    CASE mode = "im" -> im(m)
      [] mode = "z" -> z(m)
      [] mode = "zx" -> zx(m)
      [] mode = "zy" -> zy(m)
      [] mode = "a" -> a_(m)
      [] mode = "ax" -> ax(m)
      [] mode = "ay" -> ay(m)
      [] mode = "i" -> i_(m)
      [] mode = "ix" -> ix(m)
      [] mode = "iy" -> iy(m)

\* getattr(self, "%s_a" % a): the address-producing addressing mode named a
AddressMode(m, mode) ==
    CASE mode = "z" -> z_a(m)
      [] mode = "zx" -> zx_a(m)
      [] mode = "zy" -> zy_a(m)
      [] mode = "a" -> a_a(m)
      [] mode = "ax" -> ax_a(m)
      [] mode = "ay" -> ay_a(m)
      [] mode = "i" -> i_a(m)
      [] mode = "ix" -> ix_a(m)
      [] mode = "iy" -> iy_a(m)

\* a_f(): the target of the entry when it has one (no operand is fetched),
\* else the value or the address the addressing mode resolves
a_f(m, e) ==
    IF Len(e.target) > 0 THEN Ret(m, 0)
    ELSE IF e.atype = "v" THEN ValueMode(m, e.mode)
    ELSE AddressMode(m, e.mode)

\* op_f(operand): getattr(self, op) applied to what a_f returned
op_f(m, e, v) ==
    CASE e.op = "ADC" -> ADC(m, v)
      [] e.op = "AND" -> AND(m, v)
      [] e.op = "ASL" -> ASL(m, v, e.target)
      [] e.op = "B" -> B(m, e.target)
      [] e.op = "BIT" -> BIT(m, v)
      [] e.op = "BRK" -> BRK(m)
      [] e.op = "CMP" -> CMP(m, v)
      [] e.op = "CPX" -> CPX(m, v)
      [] e.op = "CPY" -> CPY(m, v)
      [] e.op = "DEC" -> DEC(m, v)
      [] e.op = "DEX" -> DEX(m)
      [] e.op = "DEY" -> DEY(m)
      [] e.op = "EOR" -> EOR(m, v)
      [] e.op = "CL" -> CL(m, e.target)
      [] e.op = "SE" -> SE(m, e.target)
      [] e.op = "INC" -> INC(m, v)
      [] e.op = "INX" -> INX(m)
      [] e.op = "INY" -> INY(m)
      [] e.op = "JMP" -> JMP(m, v)
      [] e.op = "JSR" -> JSR(m, v)
      [] e.op = "LDA" -> LDA(m, v)
      [] e.op = "LDX" -> LDX(m, v)
      [] e.op = "LDY" -> LDY(m, v)
      [] e.op = "LSR" -> LSR(m, v, e.target)
      [] e.op = "NOP" -> NOP(m)
      [] e.op = "ORA" -> ORA(m, v)
      [] e.op = "P" -> P(m, e.target)
      [] e.op = "T" -> T(m, e.target)
      [] e.op = "ROL" -> ROL(m, v, e.target)
      [] e.op = "ROR" -> ROR(m, v, e.target)
      [] e.op = "RTI" -> RTI(m)
      [] e.op = "RTS" -> RTS(m)
      [] e.op = "SBC" -> SBC(m, v)
      [] e.op = "STA" -> STA(m, v)
      [] e.op = "STX" -> STX(m, v)
      [] e.op = "STY" -> STY(m, v)

\* f(self, op_f, a_f, cc) of CPU._create_ops: op_f(a_f()); self.cc += cc
f(m, e) ==
    Bind([o \in {a_f(m, e)} |->
        IF ~Ok(o.m) THEN o.m
        ELSE Bind([m1 \in {op_f(o.m, e, o.v)} |->
                 IF ~Ok(m1) THEN m1
                 ELSE [m1 EXCEPT !.cc = @ + e.cc]])])

\* CPU.step() passing over an empty slot without raising
step_skipsNone(m) ==
    Bind([opcode \in {nextByte([m EXCEPT !.cc = 0])} |->
        IF ~Ok(opcode.m) THEN opcode.m
        ELSE Bind([e \in {ops[opcode.v]} |->
                 IF e.op = "None"
                 THEN opcode.m
                 ELSE f(opcode.m, e)])])

\* CPU.step() without the self.cc = 0
step_accumulates(m) ==
    Bind([opcode \in {nextByte(m)} |->
        IF ~Ok(opcode.m) THEN opcode.m
        ELSE Bind([e \in {ops[opcode.v]} |->
                 IF e.op = "None"
                 THEN [opcode.m EXCEPT !.err = "TypeError"]
                 ELSE f(opcode.m, e)])])

\* CPU.step(); calling the empty slot None raises TypeError
step(m) ==
    Bind([opcode \in {nextByte([m EXCEPT !.cc = 0])} |->
        IF ~Ok(opcode.m) THEN opcode.m
        ELSE Bind([e \in {ops[opcode.v]} |->
                 IF e.op = "None"
                 THEN [opcode.m EXCEPT !.err = "TypeError"]
                 ELSE f(opcode.m, e)])])

----------------------------------------------------------------------------
(* The state machine *)

\* the machine at the start of a call
Machine ==
    [a |-> a, x |-> x, y |-> y, s |-> s, pc |-> pc, p |-> p, cc |-> cc,
     stack_page |-> stack_page, blocks |-> blocks,
     err |-> NoErr, trace |-> <<>>]

\* what a call record keeps of the state before the call
Snapshot ==
    [a |-> a, x |-> x, y |-> y, s |-> s, pc |-> pc, p |-> p, cc |-> cc,
     blocks |-> blocks]

\* the record of a call that left the machine m
Call(name, args, m, ret) ==
    [call |-> name, args |-> args, pre |-> Snapshot,
     err |-> m.err, trace |-> m.trace, ret |-> ret]

\* the state after a call that left the machine m
Commit(m) ==
    /\ a' = m.a /\ x' = m.x /\ y' = m.y /\ s' = m.s /\ pc' = m.pc /\ p' = m.p
    /\ cc' = m.cc
    /\ blocks' = m.blocks
    /\ UNCHANGED stack_page

\* The memory maps the CPU is run on: the blocks a caller registers, each
\* with its initial bytes.  ZP is the bottom of the zero page, ZPS the top
\* of the zero page and the bottom of the stack page, STK the top of the
\* stack page, ROM a read-only program, SUB two one-byte routines (RTS,
\* RTI), VEC the interrupt vectors (BRK/IRQ -> $8081).
Windows == <<
    [start |-> \h0000, readonly |-> FALSE,
     image |-> <<\hFE, \h01, \hFF, \h00, \h80, \h80, \h60, \h40>>],
    [start |-> \h00FC, readonly |-> FALSE,
     image |-> <<\h10, \h7F, \h00, \h80, \h80, \h80, \h25, \h02, \h00, \hFF>>],
    [start |-> \h01F8, readonly |-> FALSE,
     image |-> <<\h00, \h01, \h99, \h42, \hCF, \h7F, \h80, \h80, \h60, \h00>>],
    [start |-> \h8000, readonly |-> TRUE,
     image |-> <<\hEA, \h60, \h40, \h00, \hA9, \h42>>],
    [start |-> \h8080, readonly |-> FALSE,
     image |-> <<\h60, \h40, \hEA>>],
    [start |-> \hFFF8, readonly |-> FALSE,
     image |-> <<\h00, \h80, \h00, \h80, \h00, \h80, \h81, \h80>>]
>>

\* the image of window w with the instruction bytes code placed at origin
Overlay(w, origin, code) ==
    [i \in 1..Len(w.image) |->
        LET k == w.start + i - origin IN
        IF k \in 1..Len(code) THEN code[k] ELSE w.image[i]]

\* the block descriptors (start, length, readonly, value, valueOffset)
MemoryMap(origin, code) ==
    [k \in 1..Len(Windows) |->
        <<Windows[k].start, Len(Windows[k].image), Windows[k].readonly,
          Overlay(Windows[k], origin, code), 0>>]

\* where the instruction under execution is placed
Origins == {\h0000, \h8000, \hFFFD, \hFFFF}

\* the operand bytes of the instruction under execution
OperandLo == {\h00, \h7F, \h80, \hFF}

OperandHi == {\h00, \h80, \hFF}

\* The register values the instruction is run from: the reset state first,
\* the others reachable from it by loads, transfers and PLP.
RegProfiles == {
    [a |-> \h00, x |-> \h00, y |-> \h00, s |-> \hFF, p |-> \h24],
    [a |-> \h99, x |-> \hFF, y |-> \h01, s |-> \h00, p |-> \h2D],
    [a |-> \hFF, x |-> \h02, y |-> \hFF, s |-> \h01, p |-> \hE4],
    [a |-> \h15, x |-> \h00, y |-> \h00, s |-> \h02, p |-> \h2E]
}

\* CPU.__init__ default
StackPages == {1}

\* a machine with no block registered and the registers of Registers.reset
NewMachine(pc0, page) ==
    [a |-> 0, x |-> 0, y |-> 0, s |-> 255, pc |-> pc0, p |-> 36, cc |-> 0,
     stack_page |-> page, blocks |-> <<>>, err |-> NoErr, trace |-> <<>>]

\* MMU(blocks) and CPU(mmu, pc, stack_page) constructed on one of the memory
\* maps, one instruction placed at pc, the registers at one of the profiles
Init ==
    /\ DuplicateOpcodes = {}
    /\ \E origin \in Origins, opcode \in 0..255, lo \in OperandLo,
          hi \in OperandHi, regs \in RegProfiles, page \in StackPages :
        \E map \in {MemoryMap(origin, <<opcode, lo, hi>>)} :
        \E m \in {MMU(NewMachine(origin, page), map)} :
           /\ Ok(m)
           /\ a = regs.a /\ x = regs.x /\ y = regs.y /\ s = regs.s
           /\ p = regs.p
           /\ pc = m.pc
           /\ cc = m.cc
           /\ stack_page = m.stack_page
           /\ blocks = m.blocks
           /\ hist = <<>>
           /\ n = 0

\* one call of CPU.step()
Step ==
    /\ n < MaxSteps
    /\ \E m \in {step(Machine)} :
        /\ Commit(m)
        /\ hist' = Append(hist, Call("step", <<>>, m, 0))
    /\ n' = n + 1

Next == Step

Spec == Init /\ [][Next]_vars

----------------------------------------------------------------------------
(* The MMU on its own: blocks registered, read and written by a caller *)

AddStarts == {\h00, \h08, \h10}

AddLengths == {\h08, \h10}

\* the initial values given to addBlock with their offsets; <<>> is None
AddValues == {<<<<>>, 0>>, <<<<\hA5, \h5A>>, 7>>}

\* the addresses read and written
Addrs == {\h00, \h08, \h0F, \h10, \h28}

\* the values written (write masks to 8 bits)
WriteValues == {\h01, \h1FF}

InitMMU ==
    /\ a = 0 /\ x = 0 /\ y = 0 /\ s = 255 /\ pc = 0 /\ p = 36
    /\ cc = 0
    /\ stack_page = 1
    /\ blocks = <<>>
    /\ hist = <<>>
    /\ n = 0

\* one call of MMU.addBlock
AddBlock ==
    /\ Len(blocks) < MaxBlocks
    /\ \E start \in AddStarts, length \in AddLengths, readonly \in BOOLEAN,
          value \in AddValues :
        \E m \in {addBlock(Machine, start, length, readonly,
                          value[1], value[2])} :
           /\ Commit(m)
           /\ hist' = <<Call("addBlock",
                             <<start, length, readonly, value[1], value[2]>>,
                             m, 0)>>
    /\ UNCHANGED n

\* one call of MMU.write
Write ==
    /\ n < MaxCalls
    /\ \E addr \in Addrs, value \in WriteValues :
        \E m \in {mmu_write(Machine, addr, value)} :
        /\ Commit(m)
        /\ hist' = <<Call("write", <<addr, value>>, m, 0)>>
    /\ n' = n + 1

\* one call of MMU.read
Read ==
    /\ n < MaxCalls
    /\ \E addr \in Addrs :
        \E r \in {mmu_read(Machine, addr)} :
        /\ Commit(r.m)
        /\ hist' = <<Call("read", <<addr>>, r.m, r.v)>>
    /\ n' = n + 1

NextMMU == AddBlock \/ Write \/ Read

SpecMMU == InitMMU /\ [][NextMMU]_vars

----------------------------------------------------------------------------
(* The arithmetic operations on their own: ADC, SBC, CMP, CPX or CPY called *)
(* once with an operand value on a register file                            *)

\* the accumulator before the call
AluAccumulators == 0..255

\* the status byte before the call: C and D in each combination, with N, V
\* and Z clear ($24, $2C) and set ($E7, $EF)
AluStatus == {\h24, \hE7, \h2C, \hEF}

\* x and y before the call
AluIndexes == {<<\h00, \hFF>>, <<\h80, \h7F>>}

\* the operand values: high and low digits on both sides of 9 and of bit 7
AluOperands ==
    {hi * 16 + lo : hi \in {0, 1, 2, 5, 7, 8, 9, 10, 15},
                    lo \in {0, 1, 7, 9, 10, 15}}

\* the memory of the machine: one writable block
AluMemory == << <<\h0000, 4, FALSE, <<\h12, \h34, \h56, \h78>>, 0>> >>

InitALU ==
    /\ \E av \in AluAccumulators, st \in AluStatus, xy \in AluIndexes :
          a = av /\ p = st /\ x = xy[1] /\ y = xy[2]
    /\ \E m \in {MMU(NewMachine(0, 1), AluMemory)} :
          /\ s = m.s /\ pc = m.pc
          /\ cc = m.cc
          /\ stack_page = m.stack_page
          /\ blocks = m.blocks
    /\ hist = <<>>
    /\ n = 0

\* one call of CPU.ADC
Adc ==
    /\ hist = <<>>
    /\ \E v \in AluOperands :
        \E m \in {ADC(Machine, v)} :
        /\ Commit(m)
        /\ hist' = <<Call("ADC", <<v>>, m, 0)>>
    /\ UNCHANGED n

\* one call of CPU.SBC
Sbc ==
    /\ hist = <<>>
    /\ \E v \in AluOperands :
        \E m \in {SBC(Machine, v)} :
        /\ Commit(m)
        /\ hist' = <<Call("SBC", <<v>>, m, 0)>>
    /\ UNCHANGED n

\* one call of CPU.CMP
Cmp ==
    /\ hist = <<>>
    /\ \E v \in AluOperands :
        \E m \in {CMP(Machine, v)} :
        /\ Commit(m)
        /\ hist' = <<Call("CMP", <<v>>, m, 0)>>
    /\ UNCHANGED n

\* one call of CPU.CPX
Cpx ==
    /\ hist = <<>>
    /\ \E v \in AluOperands :
        \E m \in {CPX(Machine, v)} :
        /\ Commit(m)
        /\ hist' = <<Call("CPX", <<v>>, m, 0)>>
    /\ UNCHANGED n

\* one call of CPU.CPY
Cpy ==
    /\ hist = <<>>
    /\ \E v \in AluOperands :
        \E m \in {CPY(Machine, v)} :
        /\ Commit(m)
        /\ hist' = <<Call("CPY", <<v>>, m, 0)>>
    /\ UNCHANGED n

NextALU == Adc \/ Sbc \/ Cmp \/ Cpx \/ Cpy

SpecALU == InitALU /\ [][NextALU]_vars

----------------------------------------------------------------------------
(* The flag operations of Registers, each called once on a register file   *)
(* with any status byte, and getFlag called after it.                      *)

\* the status byte before the call
FlagStatus == 0..255

\* a, x, y, s before the call
FlagRegisters == {<<\h00, \h00, \h00, \hFF>>, <<\h99, \hFF, \h01, \h00>>}

InitFlags ==
    /\ p \in FlagStatus
    /\ \E regs \in FlagRegisters :
          a = regs[1] /\ x = regs[2] /\ y = regs[3] /\ s = regs[4]
    /\ pc = 0 /\ cc = 0 /\ stack_page = 1
    /\ blocks = <<>>
    /\ hist = <<>>
    /\ n = 0

\* one call of Registers.setFlag(flag, v)
SetFlag ==
    /\ hist = <<>>
    /\ \E flag \in FlagNames, v \in BOOLEAN :
        \E m \in {setFlag(Machine, flag, v)} :
        /\ Commit(m)
        /\ hist' = <<Call("setFlag", <<flag, v>>, m, 0)>>
    /\ UNCHANGED n

\* one call of Registers.clearFlag(flag)
ClearFlag ==
    /\ hist = <<>>
    /\ \E flag \in FlagNames :
        \E m \in {clearFlag(Machine, flag)} :
        /\ Commit(m)
        /\ hist' = <<Call("clearFlag", <<flag>>, m, 0)>>
    /\ UNCHANGED n

\* one call of Registers.getFlag(flag) after a setFlag or a clearFlag
GetFlag ==
    /\ Len(hist) = 1
    /\ \E flag \in FlagNames :
        /\ Commit(Machine)
        /\ hist' = Append(hist, Call("getFlag", <<flag>>, Machine,
                                     getFlag(Machine, flag)))
    /\ UNCHANGED n

NextFlags == SetFlag \/ ClearFlag \/ GetFlag

SpecFlags == InitFlags /\ [][NextFlags]_vars

----------------------------------------------------------------------------
(* SBC and ADC, each called once with any operand byte on any accumulator. *)

\* the status byte before the call: binary mode with either carry, and
\* decimal mode
SbcStatus == {\h24, \h25, \hE7, \h2D}

\* the operand of the call
SbcOperands == 0..255

InitSBC ==
    /\ a \in 0..255
    /\ p \in SbcStatus
    /\ x = 0 /\ y = 0 /\ s = 255
    /\ pc = 0 /\ cc = 0 /\ stack_page = 1
    /\ blocks = <<>>
    /\ hist = <<>>
    /\ n = 0

\* one call of CPU.SBC with an operand byte
SbcByte ==
    /\ hist = <<>>
    /\ \E v \in SbcOperands :
        \E m \in {SBC(Machine, v)} :
        /\ Commit(m)
        /\ hist' = <<Call("SBC", <<v>>, m, 0)>>
    /\ UNCHANGED n

\* one call of CPU.ADC with an operand byte
AdcByte ==
    /\ hist = <<>>
    /\ \E v \in SbcOperands :
        \E m \in {ADC(Machine, v)} :
        /\ Commit(m)
        /\ hist' = <<Call("ADC", <<v>>, m, 0)>>
    /\ UNCHANGED n

NextSBC == SbcByte \/ AdcByte

SpecSBC == InitSBC /\ [][NextSBC]_vars

----------------------------------------------------------------------------
(* The stack primitives of the CPU on a writable stack page: the caller    *)
(* pushes n bytes and then pops n, or pushes a word and pops a word.       *)

\* the most bytes pushed with values chosen freely
MaxPushes == 3

\* the bytes of the stack page
FullPage == 256

\* the stack pointer before the first push
StackStarts == {\h00, \h01, \h80, \hFF}

\* the values pushed, one of them wider than a byte
PushValues == {\h00, \h42, \hFF, \h1FF}

\* the k-th value of a run that fills the page
Pattern(k) == (k * 7 + 3) % 256

\* the words pushed
PushWords == {\h0000, \h1234, \h80FF, \hFFFF}

\* the stack page $0100..$01FF, writable
StackMemory == << <<\h0100, FullPage, FALSE, <<>>, 0>> >>

\* the record of a stack call that left the machine m
StackCall(name, args, m, ret) ==
    [call |-> name, args |-> args, pre |-> [s |-> s], err |-> m.err,
     ret |-> ret]

InitStack ==
    /\ s \in StackStarts
    /\ n \in (1..MaxPushes) \cup {FullPage}
    /\ \E m \in {MMU(NewMachine(0, 1), StackMemory)} :
          /\ Ok(m)
          /\ a = m.a /\ x = m.x /\ y = m.y /\ p = m.p
          /\ pc = m.pc /\ cc = m.cc
          /\ stack_page = m.stack_page
          /\ blocks = m.blocks
    /\ hist = <<>>

\* one call of CPU.stackPush(v), while fewer than n bytes are pushed
Push ==
    /\ Len(hist) < n
    /\ hist # <<>> => hist[1].call = "stackPush"
    /\ \E v \in IF n <= MaxPushes THEN PushValues
                ELSE {Pattern(Len(hist))} :
        \E m \in {stackPush(Machine, v)} :
        /\ Commit(m)
        /\ hist' = Append(hist, StackCall("stackPush", <<v>>, m, 0))
    /\ UNCHANGED n

\* one call of CPU.stackPop(), after the n pushes
Pop ==
    /\ n <= Len(hist) /\ Len(hist) < 2 * n
    /\ hist[1].call = "stackPush"
    /\ \E r \in {stackPop(Machine)} :
        /\ Commit(r.m)
        /\ hist' = Append(hist, StackCall("stackPop", <<>>, r.m, r.v))
    /\ UNCHANGED n

\* one call of CPU.stackPushWord(v)
PushWord ==
    /\ hist = <<>> /\ n = 1
    /\ \E v \in PushWords :
        \E m \in {stackPushWord(Machine, v)} :
        /\ Commit(m)
        /\ hist' = <<StackCall("stackPushWord", <<v>>, m, 0)>>
    /\ UNCHANGED n

\* one call of CPU.stackPopWord(), after the word is pushed
PopWord ==
    /\ Len(hist) = 1 /\ hist[1].call = "stackPushWord"
    /\ \E r \in {stackPopWord(Machine)} :
        /\ Commit(r.m)
        /\ hist' = Append(hist, StackCall("stackPopWord", <<>>, r.m, r.v))
    /\ UNCHANGED n

NextStack == Push \/ Pop \/ PushWord \/ PopWord

SpecStack == InitStack /\ [][NextStack]_vars

----------------------------------------------------------------------------
(* Properties *)

\* the last call made
Last == hist[Len(hist)]

\* the state after call i of hist
Post(i) == IF i = Len(hist) THEN Snapshot ELSE hist[i + 1].pre

\* block b claims the address: it lies in [start, start + length)
Claims(b, addr) == b.start <= addr /\ addr < b.start + b.length

\* the blocks of bs that claim the address, by position
Claiming(bs, addr) == {i \in 1..Len(bs) : Claims(bs[i], addr)}

Mapped(bs, addr) == Claiming(bs, addr) # {}

\* the first block in registration order that claims the address
FirstClaiming(bs, addr) ==
    CHOOSE i \in Claiming(bs, addr) : \A j \in Claiming(bs, addr) : i <= j

\* the byte a read of the address returns
ByteAt(bs, addr) ==
    LET b == bs[FirstClaiming(bs, addr)] IN b.memory[addr - b.start + 1]

\* two ranges [s1, s1 + l1) and [s2, s2 + l2) have an address in common
Intersect(s1, l1, s2, l2) ==
    \E addr \in s1..(s1 + l1 - 1) : s2 <= addr /\ addr < s2 + l2

\* C1: whatever add_block calls were made, accepted or rejected, no two
\* registered blocks have ranges that share an address.
C1_NoSharedAddress ==
    \A i, j \in 1..Len(blocks) :
        i < j => ~Intersect(blocks[i].start, blocks[i].length,
                            blocks[j].start, blocks[j].length)

\* C2: add_block fails with the overlap error exactly when the new range
\* intersects the range of a registered block (adjacent ranges are
\* accepted), and a rejected registration leaves the blocks unchanged.
C2_OverlapRejectedExactly ==
    (Len(hist) > 0 /\ Last.call = "addBlock") =>
        LET start == Last.args[1]
            length == Last.args[2]
            before == Last.pre.blocks
        IN /\ (Last.err = "MemoryRangeError") <=>
                  \E i \in 1..Len(before) :
                      Intersect(start, length,
                                before[i].start, before[i].length)
           /\ Last.err # NoErr => blocks = before

\* C3: every write whose address lies in a block registered read-only
\* fails with the read-only error, the bytes of every read-only block stay
\* as they were, and a read of such an address returns the block's byte.
C3_ReadOnlyRejectsWrites ==
    (Len(hist) > 0 /\ Last.call \in {"write", "step"}) =>
        LET before == Last.pre.blocks IN
        /\ \A k \in 1..Len(Last.trace) :
              (/\ Last.trace[k][1] = "w"
               /\ \E i \in Claiming(before, Last.trace[k][2]) :
                      before[i].readonly)
              => Last.err = "ReadOnlyError"
        /\ \A i \in 1..Len(before) :
              before[i].readonly =>
                  /\ blocks[i].memory = before[i].memory
                  /\ \A o \in 1..before[i].length :
                        ByteAt(blocks, before[i].start + o - 1)
                            = before[i].memory[o]

\* C4 as stated: a read or write of an address no block claims fails with
\* the out-of-range error and changes nothing; a read of a claimed address
\* returns the byte at addr - start of the first claiming block, and a write
\* stores value & 0xFF there and changes no other byte.
C4_ReadWriteAsStated ==
    (Len(hist) > 0 /\ Last.call \in {"read", "write"}) =>
        LET addr == Last.args[1]
            before == Last.pre.blocks
            bi == FirstClaiming(before, addr)
        IN IF ~Mapped(before, addr)
           THEN Last.err = "IndexError" /\ blocks = before
           ELSE IF Last.call = "read"
           THEN /\ Last.err = NoErr
                /\ Last.ret = before[bi].memory[addr - before[bi].start + 1]
                /\ blocks = before
           ELSE /\ Last.err = NoErr
                /\ blocks = [before EXCEPT
                       ![bi].memory[addr - before[bi].start + 1]
                           = Last.args[2] % 256]

\* C4 amended: as above, but a write whose first claiming block is
\* read-only fails with the read-only error and changes nothing.
C4_ReadWrite ==
    (Len(hist) > 0 /\ Last.call \in {"read", "write"}) =>
        LET addr == Last.args[1]
            before == Last.pre.blocks
            bi == FirstClaiming(before, addr)
        IN IF ~Mapped(before, addr)
           THEN Last.err = "IndexError" /\ blocks = before
           ELSE IF Last.call = "read"
           THEN /\ Last.err = NoErr
                /\ Last.ret = before[bi].memory[addr - before[bi].start + 1]
                /\ blocks = before
           ELSE IF before[bi].readonly
           THEN Last.err = "ReadOnlyError" /\ blocks = before
           ELSE /\ Last.err = NoErr
                /\ blocks = [before EXCEPT
                       ![bi].memory[addr - before[bi].start + 1]
                           = Last.args[2] % 256]

\* a write of a value over 255 stored in the first of two blocks that claim
\* the address
C4_Witness ==
    /\ Len(hist) > 0 /\ Last.call = "write" /\ Last.err = NoErr
    /\ Last.args[2] > 255
    /\ Cardinality(Claiming(blocks, Last.args[1])) = 2
    /\ ByteAt(blocks, Last.args[1]) = 255

\* call i of hist is a step whose opcode fetch found a block
Fetched(i) ==
    hist[i].call = "step" /\ Mapped(hist[i].pre.blocks, hist[i].pre.pc)

\* the opcode byte that step i of hist fetched
OpcodeOf(i) == ByteAt(hist[i].pre.blocks, hist[i].pre.pc)

\* call i of hist is a step that fetched one of the opcodes
Executes(i, opcodes) == Fetched(i) /\ OpcodeOf(i) \in opcodes

\* the flag is set in the status byte v
FlagIn(v, flag) == (v \div flagBit[flag]) % 2 = 1

\* C5: the program counter wraps modulo 65536: whatever steps were made,
\* pc is a value in 0..65535.
C5_PcIs16Bit == pc \in 0..65535

\* C6: whatever steps were made, the accumulator, the index registers, the
\* stack pointer and the status byte are each in 0..255.
C6_RegistersAre8Bit ==
    /\ a \in 0..255 /\ x \in 0..255 /\ y \in 0..255
    /\ s \in 0..255 /\ p \in 0..255

\* a decimal-mode SBC #$80 from a = $15 with a borrow: 15 - 80 - 1 is
\* negative and the accumulator is left at BCD 34
C6_Witness ==
    /\ Len(hist) > 0 /\ Executes(Len(hist), {\hE9}) /\ Last.err = NoErr
    /\ FlagIn(Last.pre.p, "D") /\ ~FlagIn(Last.pre.p, "C")
    /\ Last.pre.a = \h15
    /\ a = \h34

\* the registers and the memory that a step on an empty dispatch slot keeps
UnchangedByStep(i) ==
    /\ Post(i).a = hist[i].pre.a /\ Post(i).x = hist[i].pre.x
    /\ Post(i).y = hist[i].pre.y /\ Post(i).s = hist[i].pre.s
    /\ Post(i).p = hist[i].pre.p
    /\ Post(i).blocks = hist[i].pre.blocks

\* C7 as stated: a step that fetches an opcode with no dispatch entry fails
\* with the unimplemented-opcode error and a, x, y, s, p, pc and every
\* memory byte are as before the step.
C7_NoDispatchAsStated ==
    \A i \in 1..Len(hist) :
        (Fetched(i) /\ ops[OpcodeOf(i)].op = "None") =>
            /\ hist[i].err = "TypeError"
            /\ UnchangedByStep(i)
            /\ Post(i).pc = hist[i].pre.pc

\* C7 amended: such a step fails with the unimplemented-opcode error and
\* a, x, y, s, p and every memory byte are as before the step; pc is one
\* more than before the step (the opcode fetch advanced it).
C7_NoDispatch ==
    \A i \in 1..Len(hist) :
        (Fetched(i) /\ ops[OpcodeOf(i)].op = "None") =>
            /\ hist[i].err = "TypeError"
            /\ UnchangedByStep(i)
            /\ Post(i).pc = hist[i].pre.pc + 1

\* a step on the undefined opcode $02 from the reset registers
C7_Witness ==
    /\ Len(hist) > 0 /\ Executes(Len(hist), {\h02})
    /\ Last.err = "TypeError"
    /\ Last.pre.s = \hFF /\ Last.pre.p = \h24

\* the address of the stack byte that the stack pointer sp selects
StackAddr(sp) == stack_page * 256 + sp

StackPage == {StackAddr(sp) : sp \in 0..255}

\* the first claiming block of the address exists and is not read-only
Writable(bs, addr) ==
    Mapped(bs, addr) /\ ~bs[FirstClaiming(bs, addr)].readonly

\* C8: a push (PHA, PHP) writes the byte at stack_page*0x100 + s and then
\* sets s to (s - 1) mod 256; a pull (PLA, PLP) sets s to (s + 1) mod 256 and
\* takes the byte at stack_page*0x100 + s for the new s; neither faults
\* when the byte it addresses is there (writable, for a push), whatever s
\* is; and no stack access of PHA, PHP, PLA, PLP, JSR, BRK, RTS or RTI
\* addresses a byte outside the stack page.
C8_StackAddressing ==
    \A i \in 1..Len(hist) :
        LET c == hist[i]
            after == Post(i)
            pushed == IF OpcodeOf(i) = \h48 THEN c.pre.a ELSE c.pre.p
            pulled == ByteAt(c.pre.blocks, StackAddr(after.s))
        IN
        /\ Executes(i, {\h48, \h08}) =>
              /\ c.trace = << <<"r", c.pre.pc>>,
                              <<"w", StackAddr(c.pre.s), pushed>> >>
              /\ (c.err = NoErr) <=> Writable(c.pre.blocks, StackAddr(c.pre.s))
              /\ c.err = NoErr =>
                    /\ after.s = (c.pre.s - 1) % 256
                    /\ ByteAt(after.blocks, StackAddr(c.pre.s)) = pushed
        /\ Executes(i, {\h68, \h28}) =>
              /\ c.trace = << <<"r", c.pre.pc>>,
                              <<"r", StackAddr((c.pre.s + 1) % 256)>> >>
              /\ (c.err = NoErr) <=>
                     Mapped(c.pre.blocks, StackAddr((c.pre.s + 1) % 256))
              /\ c.err = NoErr =>
                    /\ after.s = (c.pre.s + 1) % 256
                    /\ OpcodeOf(i) = \h68 => after.a = pulled
                    /\ OpcodeOf(i) = \h28 => after.p = BitOr(pulled, 32)
        /\ Executes(i, {\h48, \h08, \h20, \h00}) =>
              \A k \in 1..Len(c.trace) :
                  c.trace[k][1] = "w" => c.trace[k][2] \in StackPage
        /\ Executes(i, {\h68, \h28, \h60, \h40}) =>
              \A k \in 2..Len(c.trace) : c.trace[k][2] \in StackPage

\* a PHA at s = $00 that wrote $0100 and left s = $FF
C8_Witness ==
    /\ Len(hist) > 0 /\ Executes(Len(hist), {\h48}) /\ Last.err = NoErr
    /\ Last.pre.s = 0
    /\ s = 255
    /\ ByteAt(blocks, StackAddr(0)) = Last.pre.a

\* a PLA at s = $FF that read $0100 and left s = $00
C8_PullWraps ==
    /\ Len(hist) > 0 /\ Executes(Len(hist), {\h68}) /\ Last.err = NoErr
    /\ Last.pre.s = 255
    /\ s = 0

\* C9: a JSR at address A pushes the word A + 2, high byte first, then low
\* byte, and sets pc to its operand; an RTS run on the stack the JSR left
\* sets pc to A + 3 (as a 16-bit address) and s to its value before the JSR,
\* for every A and every s, those where the push wraps s included.
C9_JsrRts ==
    \A i \in 1..Len(hist) :
        (Executes(i, {\h20}) /\ hist[i].err = NoErr) =>
            LET c == hist[i]
                A == c.pre.pc
                sp == c.pre.s
                target == ByteAt(c.pre.blocks, A + 1)
                              + 256 * ByteAt(c.pre.blocks, A + 2)
            IN /\ c.trace = << <<"r", A>>, <<"r", A + 1>>, <<"r", A + 2>>,
                              <<"w", StackAddr(sp), (A + 2) \div 256>>,
                              <<"w", StackAddr((sp - 1) % 256),
                                (A + 2) % 256>> >>
               /\ Post(i).pc = target
               /\ Post(i).s = (sp - 2) % 256
               /\ (/\ i < Len(hist)
                   /\ Executes(i + 1, {\h60})
                   /\ hist[i + 1].err = NoErr)
                  => /\ Post(i + 1).pc = (A + 3) % 65536
                     /\ Post(i + 1).s = sp

\* a JSR at s = $00, whose pushes wrap s to $FE, then the RTS that returns
C9_Witness ==
    /\ Len(hist) = 2
    /\ Executes(1, {\h20}) /\ hist[1].err = NoErr
    /\ Executes(2, {\h60}) /\ hist[2].err = NoErr
    /\ hist[1].pre.s = 0 /\ hist[2].pre.s = \hFE
    /\ pc = hist[1].pre.pc + 3
    /\ s = 0

\* a JSR at $FFFD and the RTS that returns to $0000
C9_ReturnWraps ==
    /\ Len(hist) = 2
    /\ Executes(1, {\h20}) /\ hist[1].err = NoErr
    /\ Executes(2, {\h60}) /\ hist[2].err = NoErr
    /\ hist[1].pre.pc = \hFFFD
    /\ pc = 0

\* C10: a step that executes BRK at address A, the three stack bytes under
\* s writable and the vector bytes at $FFFE and $FFFF mapped, completes: it
\* pushes the word A + 2 (high, then low) and then the status byte with B
\* set, leaves B and I set in p, and leaves pc at the little-endian word
\* of $FFFE (low) and $FFFF (high).
C10_Brk ==
    \A i \in 1..Len(hist) :
        LET c == hist[i]
            A == c.pre.pc
            sp == c.pre.s
            word == (A + 2) % 65536
            status == BitOr(c.pre.p, 16)
        IN (/\ Executes(i, {\h00})
            /\ \A k \in 0..2 :
                   Writable(c.pre.blocks, StackAddr((sp - k) % 256))
            /\ Mapped(c.pre.blocks, \hFFFE)
            /\ Mapped(c.pre.blocks, \hFFFF))
           => /\ c.err = NoErr
              /\ c.trace = << <<"r", A>>,
                              <<"w", StackAddr(sp), word \div 256>>,
                              <<"w", StackAddr((sp - 1) % 256), word % 256>>,
                              <<"w", StackAddr((sp - 2) % 256), status>>,
                              <<"r", \hFFFE>>, <<"r", \hFFFF>> >>
              /\ Post(i).p = BitOr(status, 4)
              /\ Post(i).s = (sp - 3) % 256
              /\ Post(i).pc = ByteAt(Post(i).blocks, \hFFFE)
                                 + 256 * ByteAt(Post(i).blocks, \hFFFF)
              /\ Post(i).a = c.pre.a /\ Post(i).x = c.pre.x
              /\ Post(i).y = c.pre.y

\* the BRK of the read-only program at $8000, from the reset registers:
\* $80, $02 and $34 pushed, pc at the vector's $8081
C10_Witness ==
    /\ Len(hist) > 0 /\ Executes(Len(hist), {\h00}) /\ Last.err = NoErr
    /\ Last.pre.pc = \h8000 /\ Last.pre.s = \hFF /\ Last.pre.p = \h24
    /\ ByteAt(blocks, \h01FF) = \h80
    /\ ByteAt(blocks, \h01FE) = \h02
    /\ ByteAt(blocks, \h01FD) = \h34
    /\ pc = \h8081 /\ p = \h34 /\ s = \hFC

\* C11: RTI pops the status byte and then the program counter word, which
\* it takes as it is; an RTI run on the stack a BRK at address A left sets
\* pc to A + 2 (as a 16-bit address), p to the status byte the BRK pushed
\* (p before the BRK with B set) and s to its value before the BRK.
C11_RtiAfterBrk ==
    \A i \in 1..Len(hist) :
        LET c == hist[i]
            sp == c.pre.s
            at(k) == StackAddr((sp + k) % 256)
        IN
        /\ (Executes(i, {\h40}) /\ c.err = NoErr) =>
              /\ c.trace = << <<"r", c.pre.pc>>, <<"r", at(1)>>,
                              <<"r", at(2)>>, <<"r", at(3)>> >>
              /\ Post(i).p = ByteAt(c.pre.blocks, at(1))
              /\ Post(i).pc = ByteAt(c.pre.blocks, at(2))
                                  + 256 * ByteAt(c.pre.blocks, at(3))
              /\ Post(i).s = (sp + 3) % 256
        /\ (/\ Executes(i, {\h00}) /\ c.err = NoErr
            /\ i < Len(hist)
            /\ Executes(i + 1, {\h40}) /\ hist[i + 1].err = NoErr)
           => /\ Post(i + 1).pc = (c.pre.pc + 2) % 65536
              /\ Post(i + 1).p = BitOr(c.pre.p, 16)
              /\ Post(i + 1).s = sp

\* the BRK at $8000 from the reset registers, then the RTI at the vector's
\* $8081: pc = $8002, p = $34 (B set, I as before the BRK), s = $FF
C11_Witness ==
    /\ Len(hist) = 2
    /\ Executes(1, {\h00}) /\ hist[1].err = NoErr
    /\ Executes(2, {\h40}) /\ hist[2].err = NoErr
    /\ hist[1].pre.pc = \h8000 /\ hist[1].pre.s = \hFF
    /\ hist[1].pre.p = \h24
    /\ pc = \h8002 /\ p = \h34 /\ s = \hFF

\* a BRK at s = $01, whose three pushes wrap s to $FE, then the RTI
C11_FrameWraps ==
    /\ Len(hist) = 2
    /\ Executes(1, {\h00}) /\ hist[1].err = NoErr
    /\ Executes(2, {\h40}) /\ hist[2].err = NoErr
    /\ hist[1].pre.s = 1 /\ hist[2].pre.s = \hFE
    /\ s = 1

\* the value of the byte v read as a signed two's-complement number
Signed(v) == IF v < 128 THEN v ELSE v - 256

\* the carry flag of the status byte st as a number
CarryOf(st) == IF FlagIn(st, "C") THEN 1 ELSE 0

\* the last call is a call of one of the operations
Called(names) == Len(hist) > 0 /\ Last.call \in names

\* C12: with D clear, ADC of m with accumulator a and carry-in c leaves
\* a' = (a + m + c) mod 256, C set iff a + m + c > 255, V set iff a and m
\* have the same sign bit and a' the opposite one (iff the signed sum is
\* outside -128..127), Z iff a' = 0 and N iff bit 7 of a' is set.
C12_AdcBinary ==
    (Called({"ADC"}) /\ ~FlagIn(Last.pre.p, "D")) =>
        LET a0 == Last.pre.a
            mv == Last.args[1]
            sum == a0 + mv + CarryOf(Last.pre.p)
            signed == Signed(a0) + Signed(mv) + CarryOf(Last.pre.p)
        IN /\ Last.err = NoErr
           /\ a = sum % 256
           /\ FlagIn(p, "C") <=> sum > 255
           /\ FlagIn(p, "V") <=>
                  ((a0 >= 128) = (mv >= 128) /\ (a >= 128) # (a0 >= 128))
           /\ FlagIn(p, "V") <=> signed \notin -128..127
           /\ FlagIn(p, "Z") <=> a = 0
           /\ FlagIn(p, "N") <=> a >= 128

\* a = $50, m = $50, c = 0 in binary mode: a' = $A0, C clear, V set
C12_Witness ==
    /\ Called({"ADC"}) /\ ~FlagIn(Last.pre.p, "D")
    /\ Last.pre.a = \h50 /\ Last.args[1] = \h50
    /\ ~FlagIn(Last.pre.p, "C")
    /\ a = \hA0 /\ ~FlagIn(p, "C") /\ FlagIn(p, "V")

\* both digits of the packed-BCD byte v are decimal digits
ValidBCD(v) == v \div 16 <= 9 /\ v % 16 <= 9

\* the number a packed-BCD byte stands for
Dec(v) == (v \div 16) * 10 + (v % 16)

\* the packed-BCD byte of a number in 0..99
Enc(k) == (k \div 10) * 16 + (k % 10)

\* C13: with D set, ADC on valid packed-BCD a and m with carry-in c leaves
\* the accumulator at the packed BCD of (dec(a) + dec(m) + c) mod 100 and C
\* set iff dec(a) + dec(m) + c > 99.
C13_AdcDecimal ==
    (/\ Called({"ADC"}) /\ FlagIn(Last.pre.p, "D")
     /\ ValidBCD(Last.pre.a) /\ ValidBCD(Last.args[1])) =>
        LET sum == Dec(Last.pre.a) + Dec(Last.args[1]) + CarryOf(Last.pre.p)
        IN /\ Last.err = NoErr
           /\ a = Enc(sum % 100)
           /\ FlagIn(p, "C") <=> sum > 99

\* a = $15, m = $27, c = 0 in decimal mode: a' = $42, C clear
C13_Witness ==
    /\ Called({"ADC"}) /\ FlagIn(Last.pre.p, "D")
    /\ Last.pre.a = \h15 /\ Last.args[1] = \h27
    /\ ~FlagIn(Last.pre.p, "C")
    /\ a = \h42 /\ ~FlagIn(p, "C")

\* a decimal sum over 99: a = $99, m = $01, c = 1 gives a' = $01, C set
C13_Carries ==
    /\ Called({"ADC"}) /\ FlagIn(Last.pre.p, "D")
    /\ Last.pre.a = \h99 /\ Last.args[1] = \h01
    /\ FlagIn(Last.pre.p, "C")
    /\ a = \h01 /\ FlagIn(p, "C")

\* the V flag of the binary-mode ADC of a0, mv and carry-in c
BinaryAdcV(a0, mv, c) == Signed(a0) + Signed(mv) + c \notin -128..127

\* the V flag of the binary-mode SBC of a0, mv and carry-in c
BinarySbcV(a0, mv, c) == Signed(a0) - Signed(mv) - (1 - c) \notin -128..127

\* C14: in decimal mode the V flag after ADC (and SBC) is the V flag the
\* binary-mode ADC (SBC) of the same accumulator, operand and carry-in
\* leaves.
C14_DecimalOverflowIsBinary ==
    (Called({"ADC", "SBC"}) /\ FlagIn(Last.pre.p, "D")) =>
        (FlagIn(p, "V") <=>
            IF Last.call = "ADC"
            THEN BinaryAdcV(Last.pre.a, Last.args[1], CarryOf(Last.pre.p))
            ELSE BinarySbcV(Last.pre.a, Last.args[1], CarryOf(Last.pre.p)))

\* in binary mode the V flag of ADC and of SBC is BinaryAdcV and BinarySbcV
C14_BinaryOverflow ==
    (Called({"ADC", "SBC"}) /\ ~FlagIn(Last.pre.p, "D")) =>
        (FlagIn(p, "V") <=>
            IF Last.call = "ADC"
            THEN BinaryAdcV(Last.pre.a, Last.args[1], CarryOf(Last.pre.p))
            ELSE BinarySbcV(Last.pre.a, Last.args[1], CarryOf(Last.pre.p)))

\* the flags of the status byte st that a compare leaves alone
KeptByCompare(st) == {fl \in {"V", "D", "I", "B"} : FlagIn(st, fl)}

\* C15: CMP, CPX and CPY with operand m against the register value r (a,
\* x or y) set Z iff r = m, C iff m <= r and N to bit 7 of (r - m) mod 256,
\* and leave a, x, y, s, the flags V, D, I, B and the memory unchanged.
C15_Compare ==
    Called({"CMP", "CPX", "CPY"}) =>
        LET r == CASE Last.call = "CMP" -> Last.pre.a
                   [] Last.call = "CPX" -> Last.pre.x
                   [] Last.call = "CPY" -> Last.pre.y
            mv == Last.args[1]
        IN /\ Last.err = NoErr
           /\ FlagIn(p, "Z") <=> r = mv
           /\ FlagIn(p, "C") <=> mv <= r
           /\ FlagIn(p, "N") <=> ((r - mv) % 256) >= 128
           /\ a = Last.pre.a /\ x = Last.pre.x /\ y = Last.pre.y
           /\ s = Last.pre.s
           /\ KeptByCompare(p) = KeptByCompare(Last.pre.p)
           /\ blocks = Last.pre.blocks

\* CPX of $80 against x = $80 with Z and C clear before: Z and C set, N
\* clear
C15_Witness ==
    /\ Called({"CPX"})
    /\ Last.pre.x = \h80 /\ Last.args[1] = \h80
    /\ ~FlagIn(Last.pre.p, "Z") /\ ~FlagIn(Last.pre.p, "C")
    /\ FlagIn(p, "Z") /\ FlagIn(p, "C") /\ ~FlagIn(p, "N")
    /\ Len(blocks) = 1

\* the opcodes of the table bound to CPU.B
BranchOpcodes == {k \in 0..255 : ops[k] # None /\ ops[k].op = "B"}

\* the branch that step i executes is taken: the flag of its table
\* parameter (flag, expected) has the expected value
Taken(i) ==
    LET target == ops[OpcodeOf(i)].target
    IN FlagIn(hist[i].pre.p, target[1]) = target[2]

\* the displacement byte of the branch that step i executes
Displacement(i) == ByteAt(hist[i].pre.blocks, hist[i].pre.pc + 1)

\* C16: a branch at address A with displacement byte d and parameter
\* (flag, expected): if the flag differs from expected, pc becomes A + 2 and
\* cycle_count 2; if it equals expected, pc becomes A + 2 plus d read as a
\* signed byte and cycle_count is 3 when floor((A+2)/0xFF) =
\* floor(new pc/0xFF) and 4 otherwise; a, x, y, s, the status byte and the
\* memory are unchanged.
C16_Branch ==
    \A i \in 1..Len(hist) :
        (Executes(i, BranchOpcodes) /\ hist[i].err = NoErr) =>
            LET A == hist[i].pre.pc
                to == A + 2 + Signed(Displacement(i))
            IN /\ Post(i).pc = IF Taken(i) THEN to ELSE A + 2
               /\ Post(i).cc =
                      IF ~Taken(i) THEN 2
                      ELSE IF FloorDivFF(A + 2) = FloorDivFF(to) THEN 3
                      ELSE 4
               /\ Post(i).a = hist[i].pre.a /\ Post(i).x = hist[i].pre.x
               /\ Post(i).y = hist[i].pre.y /\ Post(i).s = hist[i].pre.s
               /\ Post(i).p = hist[i].pre.p
               /\ Post(i).blocks = hist[i].pre.blocks

\* BPL at $FFFD with N clear and displacement $80: pc = $FF7F, 4 cycles
C16_Witness ==
    /\ Len(hist) = 1 /\ Executes(1, {\h10}) /\ Last.err = NoErr
    /\ Last.pre.pc = \hFFFD /\ Displacement(1) = \h80
    /\ ~FlagIn(Last.pre.p, "N")
    /\ pc = \hFF7F /\ cc = 4

\* BEQ at $0000 with Z set and displacement $7F: pc = $0081, 3 cycles
C16_SamePage ==
    /\ Len(hist) = 1 /\ Executes(1, {\hF0}) /\ Last.err = NoErr
    /\ Last.pre.pc = \h0000 /\ Displacement(1) = \h7F
    /\ FlagIn(Last.pre.p, "Z")
    /\ pc = \h0081 /\ cc = 3

\* BCS at $8000 with C clear: pc = $8002, 2 cycles
C16_NotTaken ==
    /\ Len(hist) = 1 /\ Executes(1, {\hB0}) /\ Last.err = NoErr
    /\ Last.pre.pc = \h8000 /\ ~FlagIn(Last.pre.p, "C")
    /\ pc = \h8002 /\ cc = 2

\* the table entry of the opcode that step i of hist fetched
EntryOf(i) == ops[OpcodeOf(i)]

\* the opcodes whose operand is resolved by ax, ay or iy
IndexedOpcodes ==
    {k \in 0..255 : /\ ops[k] # None
                    /\ Len(ops[k].target) = 0
                    /\ ops[k].mode \in {"ax", "ay", "iy"}}

\* the opcodes whose operand is resolved by another mode, or that take
\* none; the branches, which charge their own cycles, are not among them
UnindexedOpcodes ==
    {k \in 0..255 : ops[k] # None /\ ops[k].op # "B"} \ IndexedOpcodes

\* the position in the trace of step i of the access to the resolved
\* address: after the opcode and the operand bytes (and, for iy, the
\* two bytes of the zero-page pointer)
AccessAt(i) == IF EntryOf(i).mode = "iy" THEN 5 ELSE 4

\* step i executes an indexed-mode opcode and its base address was read
Resolves(i) ==
    Executes(i, IndexedOpcodes) /\ Len(hist[i].trace) >= AccessAt(i)

\* the base address of the indexed operand of step i
BaseOf(i) ==
    LET bs == hist[i].pre.blocks
        at == hist[i].pre.pc
    IN IF EntryOf(i).mode = "iy"
       THEN LET zp == ByteAt(bs, at + 1)
            IN ByteAt(bs, zp) + 256 * ByteAt(bs, (zp + 1) % 256)
       ELSE ByteAt(bs, at + 1) + 256 * ByteAt(bs, at + 2)

\* the index register of the indexed operand of step i
IndexOf(i) == IF EntryOf(i).mode = "ax" THEN hist[i].pre.x ELSE hist[i].pre.y

\* the cycles the table declares for the opcode of step i, charged when
\* the step succeeds
BaseCycles(i) == IF hist[i].err = NoErr THEN EntryOf(i).cc ELSE 0

\* C17: for absolute,X, absolute,Y and (indirect),Y the resolved address is
\* (base + index) mod 65536 and exactly one extra cycle is added iff
\* floor(base/0xFF) differs from floor((base+index)/0xFF); no other
\* addressing mode adds a cycle.
C17_IndexedAddress ==
    \A i \in 1..Len(hist) :
        /\ Resolves(i) =>
              /\ hist[i].trace[AccessAt(i)][2]
                    = (BaseOf(i) + IndexOf(i)) % 65536
              /\ Post(i).cc = BaseCycles(i) +
                    (IF FloorDivFF(BaseOf(i))
                          # FloorDivFF(BaseOf(i) + IndexOf(i))
                     THEN 1 ELSE 0)
        /\ Executes(i, UnindexedOpcodes) => Post(i).cc = BaseCycles(i)

\* LDA $00FF,X with x = $FF: the byte at $01FE is read in 4 + 1 cycles
C17_Witness ==
    /\ Len(hist) = 1 /\ Executes(1, {\hBD}) /\ Last.err = NoErr
    /\ BaseOf(1) = \h00FF /\ Last.pre.x = \hFF
    /\ Last.trace[4] = <<"r", \h01FE>>
    /\ cc = 5

\* LDA $FFFF,X with x = $02: the sum wraps to $0001, no extra cycle
C17_Wraps ==
    /\ Len(hist) = 1 /\ Executes(1, {\hBD}) /\ Last.err = NoErr
    /\ BaseOf(1) = \hFFFF /\ Last.pre.x = \h02
    /\ Last.trace[4] = <<"r", \h0001>>
    /\ cc = 4

\* LDA ($FF),Y with y = $FF and the pointer $FE80: the extra cycle is
\* charged and the read at $FF7F fails
C17_IndirectIndexed ==
    /\ Len(hist) = 1 /\ Executes(1, {\hB1}) /\ Last.err = "IndexError"
    /\ Resolves(1)
    /\ BaseOf(1) = \hFE80 /\ Last.pre.y = \hFF
    /\ Last.trace[5] = <<"r", \hFF7F>>
    /\ cc = 1

\* LDA ($00),Y with y = $01 and the pointer $01FE: no extra cycle
C17_IndirectIndexedSamePage ==
    /\ Len(hist) = 1 /\ Executes(1, {\hB1}) /\ Last.err = NoErr
    /\ BaseOf(1) = \h01FE /\ Last.pre.y = \h01
    /\ Last.trace[5] = <<"r", \h01FF>>
    /\ cc = 5

\* the high byte of a 16-bit address: its 256-byte-aligned page
HighByte(addr) == addr \div 256

\* C18: for absolute,X, absolute,Y and (indirect),Y the extra cycle is
\* charged exactly when the high byte of the base address differs from the
\* high byte of the indexed result.
C18_PenaltyIffPageDiffers ==
    \A i \in 1..Len(hist) :
        Resolves(i) =>
            (Post(i).cc = BaseCycles(i) + 1
                <=> HighByte(BaseOf(i))
                       # HighByte((BaseOf(i) + IndexOf(i)) % 65536))

\* LDA $00FF,X with x = $02 reads $0101, in the next page, and is charged
\* no extra cycle
C18_CrossingUncharged ==
    /\ Len(hist) = 1 /\ Executes(1, {\hBD}) /\ Last.err = NoErr
    /\ BaseOf(1) = \h00FF /\ Last.pre.x = \h02
    /\ Last.trace[4] = <<"r", \h0101>>
    /\ cc = 4

\* LDA $8000,X with x = $FF resolves $80FF, in the page of the base, and
\* is charged the extra cycle
C18_SamePageCharged ==
    /\ Len(hist) = 1 /\ Executes(1, {\hBD}) /\ Resolves(1)
    /\ BaseOf(1) = \h8000 /\ Last.pre.x = \hFF
    /\ Last.trace[4] = <<"r", \h80FF>>
    /\ cc = BaseCycles(1) + 1

\* the pointer word of the indirect JMP that step i executes
PointerOf(i) ==
    ByteAt(hist[i].pre.blocks, hist[i].pre.pc + 1)
        + 256 * ByteAt(hist[i].pre.blocks, hist[i].pre.pc + 2)

\* where the high byte of the word at pointer ptr is taken from
HighByteSource(ptr) == IF ptr % 256 = 255 THEN ptr - 255 ELSE ptr + 1

\* C19: indirect JMP with pointer word P sets pc to the word whose low
\* byte is read from P and whose high byte is read from P + 1 when the low
\* byte of P is not $FF, and from P - $FF when it is.
C19_IndirectJmp ==
    \A i \in 1..Len(hist) :
        (Executes(i, {\h6C}) /\ Len(hist[i].trace) >= 4) =>
            /\ hist[i].trace[4] = <<"r", HighByteSource(PointerOf(i))>>
            /\ hist[i].err = NoErr =>
                  /\ hist[i].trace[5] = <<"r", PointerOf(i)>>
                  /\ Post(i).pc =
                        ByteAt(hist[i].pre.blocks, PointerOf(i))
                        + 256 * ByteAt(hist[i].pre.blocks,
                                       HighByteSource(PointerOf(i)))

\* JMP ($00FF) at $8000: the low byte $80 from $00FF, the high byte $FE
\* from $0000, not the $80 at $0100
C19_Witness ==
    /\ Len(hist) = 1 /\ Executes(1, {\h6C}) /\ Last.err = NoErr
    /\ Last.pre.pc = \h8000 /\ PointerOf(1) = \h00FF
    /\ ByteAt(Last.pre.blocks, \h0100) = \h80
    /\ pc = \hFE80

\* JMP ($0000) at $8000: the low byte from $0000, the high from $0001
C19_NoWrap ==
    /\ Len(hist) = 1 /\ Executes(1, {\h6C}) /\ Last.err = NoErr
    /\ Last.pre.pc = \h8000 /\ PointerOf(1) = \h0000
    /\ pc = \h01FE

\* step i of hist fetched an opcode and ran it to the end
Succeeds(i) == Fetched(i) /\ hist[i].err = NoErr

\* the cycles the instruction of the successful step i incurs beyond the
\* table's: 1 or 2 for a taken branch, 1 for an indexed operand that the
\* floor(/0xFF) test charges, else none
PenaltyOf(i) ==
    IF OpcodeOf(i) \in BranchOpcodes
    THEN IF ~Taken(i) THEN 0
         ELSE IF FloorDivFF(hist[i].pre.pc + 2)
                    = FloorDivFF(hist[i].pre.pc + 2
                                 + Signed(Displacement(i)))
         THEN 1 ELSE 2
    ELSE IF OpcodeOf(i) \in IndexedOpcodes
    THEN IF FloorDivFF(BaseOf(i)) # FloorDivFF(BaseOf(i) + IndexOf(i))
         THEN 1 ELSE 0
    ELSE 0

\* C20: cycle_count is per step: after every successful step it is the
\* cycles the table declares for the executed opcode plus the page or
\* branch penalty of that instruction, whatever value the earlier steps,
\* successful or failed, left in it.
C20_CyclesPerStep ==
    \A i \in 1..Len(hist) :
        Succeeds(i) => Post(i).cc = EntryOf(i).cc + PenaltyOf(i)

\* a failed step left cycle_count at 1 (the penalty of an indexed operand
\* whose access failed) and the next step, successful, leaves the cycles
\* of its own instruction
C20_Witness ==
    /\ Len(hist) = 2
    /\ hist[1].err # NoErr /\ hist[2].pre.cc = 1
    /\ Succeeds(2)
    /\ cc = EntryOf(2).cc + PenaltyOf(2)
    /\ cc > 1

\* a successful step left its 6 cycles and the next step, a taken branch
\* or an indexed access, leaves its own cycles with its own penalty
C20_AfterSuccess ==
    /\ Len(hist) = 2
    /\ Succeeds(1) /\ hist[2].pre.cc = 6
    /\ Succeeds(2) /\ PenaltyOf(2) > 0
    /\ cc = EntryOf(2).cc + PenaltyOf(2)

\* bit $20 of the status byte st, the unused bit, is set
UnusedBitSet(st) == (st \div 32) % 2 = 1

\* C21: bit $20 of the status byte p is set in every reachable state: no
\* sequence of steps (flag instructions, arithmetic, BRK, RTI, PLP)
\* leaves it clear.
C21_UnusedBitAlwaysSet == UnusedBitSet(p)

\* PLP pulling a byte without bit $20 leaves the bit set
C21_PlpForcesBit ==
    /\ Len(hist) = 1 /\ Executes(1, {\h28}) /\ Last.err = NoErr
    /\ ~UnusedBitSet(ByteAt(Last.pre.blocks,
                            StackAddr((Last.pre.s + 1) % 256)))
    /\ UnusedBitSet(p)

\* RTI pulling the byte $80 at $0100 as the status leaves bit $20 clear
C21_RtiClearsBit ==
    /\ Len(hist) = 1 /\ Executes(1, {\h40}) /\ Last.err = NoErr
    /\ Last.pre.s = \hFF /\ UnusedBitSet(Last.pre.p)
    /\ ByteAt(Last.pre.blocks, \h0100) = \h80
    /\ p = \h80

\* bit k (0..7) of the byte v
BitOf(v, k) == (v \div 2 ^ k) % 2

\* call i of hist sets the flag it names (setFlag with a true argument) or
\* clears it (clearFlag, or setFlag with a false argument)
Sets(i) == hist[i].call = "setFlag" /\ hist[i].args[2]

\* C22: for each of the seven flag names and every status byte p: after
\* setFlag(name) getFlag(name) is true, after clearFlag(name) getFlag(name)
\* is false, and each of the two changes only that flag's bit of p: the
\* other bits of p and the other registers are unchanged.
C22_FlagRoundTrip ==
    \A i \in 1..Len(hist) :
        hist[i].call \in {"setFlag", "clearFlag"} =>
            LET flag == hist[i].args[1]
                before == hist[i].pre
                after == Post(i)
            IN /\ \A k \in 0..7 :
                     BitOf(after.p, k) =
                        IF 2 ^ k # flagBit[flag] THEN BitOf(before.p, k)
                        ELSE IF Sets(i) THEN 1 ELSE 0
               /\ after.a = before.a /\ after.x = before.x
               /\ after.y = before.y /\ after.s = before.s
               /\ after.pc = before.pc
               /\ (/\ i < Len(hist)
                   /\ hist[i + 1].call = "getFlag"
                   /\ hist[i + 1].args[1] = flag)
                  => hist[i + 1].ret = Sets(i)

\* setFlag("V") on the status byte $A5, then getFlag("V"): p = $E5, true
C22_Witness ==
    /\ Len(hist) = 2
    /\ hist[1].call = "setFlag" /\ hist[1].args = <<"V", TRUE>>
    /\ hist[1].pre.p = \hA5
    /\ hist[2].call = "getFlag" /\ hist[2].args = <<"V">>
    /\ hist[2].ret = TRUE
    /\ p = \hE5

\* clearFlag("C") on the status byte $FF, then getFlag("C"): p = $FE, false
C22_Cleared ==
    /\ Len(hist) = 2
    /\ hist[1].call = "clearFlag" /\ hist[1].args = <<"C">>
    /\ hist[1].pre.p = \hFF
    /\ hist[2].call = "getFlag" /\ hist[2].args = <<"C">>
    /\ hist[2].ret = FALSE
    /\ p = \hFE

\* clearFlag("Z") on a status byte with Z clear leaves the byte as it was
C22_ClearedTwice ==
    /\ Len(hist) = 1
    /\ hist[1].call = "clearFlag" /\ hist[1].args = <<"Z">>
    /\ hist[1].pre.p = \h24
    /\ p = \h24

\* the machine before the last call, as the operations take it
Before ==
    [Machine EXCEPT !.a = Last.pre.a, !.x = Last.pre.x, !.y = Last.pre.y,
                    !.s = Last.pre.s, !.pc = Last.pre.pc, !.p = Last.pre.p,
                    !.cc = Last.pre.cc, !.blocks = Last.pre.blocks]

\* the flags an addition or a subtraction leaves, of the status byte st
ArithmeticFlags(st) == {fl \in {"C", "V", "Z", "N"} : FlagIn(st, fl)}

\* C23: in binary mode SBC is ADC of the one's complement of the operand:
\* for every a, m in 0..255 and carry-in c, SBC with operand m leaves the
\* accumulator and the flags C, V, Z, N that ADC with operand m XOR $FF
\* leaves from the same starting state.
C23_SbcIsAdcOfComplement ==
    (Called({"SBC"}) /\ ~FlagIn(Last.pre.p, "D")) =>
        \E r \in {ADC(Before, BitXor(Last.args[1], 255))} :
            /\ a = r.a
            /\ ArithmeticFlags(p) = ArithmeticFlags(r.p)

\* SBC of $50 from a = $30 with the carry set: the accumulator is $E0, the
\* carry clear and N set, as after ADC of $AF
C23_Witness ==
    /\ Called({"SBC"}) /\ Last.pre.p = \h25
    /\ Last.pre.a = \h30 /\ Last.args[1] = \h50
    /\ a = \hE0 /\ ArithmeticFlags(p) = {"N"}
    /\ ADC(Before, \hAF).a = \hE0

\* ADC of $AF to a = $30 with the carry set leaves the same result
C23_AdcSide ==
    /\ Called({"ADC"}) /\ Last.pre.p = \h25
    /\ Last.pre.a = \h30 /\ Last.args[1] = \hAF
    /\ a = \hE0 /\ ArithmeticFlags(p) = {"N"}

\* in decimal mode the two differ: SBC of $01 from a = $10 with the carry
\* set gives $09, ADC of $FE gives another byte
C23_DecimalDiffers ==
    /\ Called({"SBC"}) /\ Last.pre.p = \h2D
    /\ Last.pre.a = \h10 /\ Last.args[1] = \h01
    /\ a = \h09
    /\ ADC(Before, \hFE).a # \h09

\* C24: the stack is last-in-first-out across wraparound: from any starting
\* s, after n <= 256 pushes of bytes v1..vn onto a writable stack page
\* followed by n pops, the pops return vn..v1, each masked to 8 bits, and
\* s is its starting value; a pushed word is popped back as the same word.
C24_StackIsLifo ==
    /\ \A i \in 1..Len(hist) : hist[i].err = NoErr
    /\ (hist # <<>> /\ hist[1].call = "stackPush") =>
          /\ \A k \in 1..(Len(hist) - n) :
                /\ hist[n + k].call = "stackPop"
                /\ hist[n + k].ret = hist[n + 1 - k].args[1] % 256
          /\ Len(hist) = 2 * n => s = hist[1].pre.s
    /\ (Len(hist) = 2 /\ hist[1].call = "stackPushWord") =>
          /\ hist[2].call = "stackPopWord"
          /\ hist[2].ret = hist[1].args[1]
          /\ s = hist[1].pre.s

\* 256 pushes from s = $80 fill the page and 256 pops return them in
\* reverse: the last pop returns the first value pushed, s is $80 again
C24_Witness ==
    /\ n = FullPage /\ Len(hist) = 2 * FullPage
    /\ hist[1].pre.s = \h80 /\ hist[FullPage].pre.s = \h81
    /\ hist[FullPage + 1].ret = Pattern(FullPage - 1)
    /\ Last.ret = Pattern(0)
    /\ s = \h80

\* three pushes from s = $01 wrap to $FE; the value $1FF comes back as $FF
C24_Wraps ==
    /\ n = 3 /\ Len(hist) = 6
    /\ hist[1].pre.s = \h01 /\ hist[4].pre.s = \hFE
    /\ hist[1].args = <<\h1FF>> /\ hist[2].args = <<\h42>>
    /\ hist[3].args = <<\h00>>
    /\ hist[4].ret = \h00 /\ hist[5].ret = \h42 /\ hist[6].ret = \hFF
    /\ s = \h01

\* the word $1234 pushed from s = $00, its low byte at $01FF, and popped
C24_WordWraps ==
    /\ Len(hist) = 2 /\ hist[1].call = "stackPushWord"
    /\ hist[1].pre.s = \h00 /\ hist[1].args = <<\h1234>>
    /\ ByteAt(blocks, \h0100) = \h12 /\ ByteAt(blocks, \h01FF) = \h34
    /\ Last.ret = \h1234
    /\ s = \h00

\* the operations of the table that write a memory byte other than through
\* the stack: the stores and the read-modify-write operations
StoreOps == {"STA", "STX", "STY"}

ModifyOps == {"ASL", "LSR", "ROL", "ROR", "INC", "DEC"}

\* the opcodes of the instructions that may change a memory byte: a store,
\* a read-modify-write on a memory operand (not on the accumulator), a
\* push (PHA, PHP), JSR and BRK
WritingOpcodes ==
    {k \in 0..255 :
        /\ ops[k] # None
        /\ \/ ops[k].op \in StoreOps
           \/ ops[k].op \in ModifyOps /\ ops[k].target # <<"a">>
           \/ ops[k].op = "P" /\ ops[k].target[1] = "PH"
           \/ ops[k].op \in {"JSR", "BRK"}}

\* what of the blocks is not their bytes: start, length, readonly, in order
Layout(bs) ==
    [k \in 1..Len(bs) |-> <<bs[k].start, bs[k].length, bs[k].readonly>>]

\* C25: a step changes a memory byte only if the instruction is a store, a
\* read-modify-write on a memory operand or a stack push (PHA, PHP, JSR,
\* BRK); every other instruction leaves every block's bytes unchanged, and
\* no step changes a block's start, length or readonly flag or the number
\* of blocks.
C25_OnlyWritersWrite ==
    \A i \in 1..Len(hist) :
        /\ Layout(Post(i).blocks) = Layout(hist[i].pre.blocks)
        /\ Post(i).blocks # hist[i].pre.blocks
              => Executes(i, WritingOpcodes)

\* PLA has read the stack slot above s into the accumulator and the
\* memory is as before
C25_Witness ==
    /\ Len(hist) = 1 /\ Executes(1, {\h68}) /\ Last.err = NoErr
    /\ Last.trace[2] = <<"r", StackAddr((Last.pre.s + 1) % 256)>>
    /\ a = ByteAt(Last.pre.blocks, StackAddr((Last.pre.s + 1) % 256))
    /\ a # Last.pre.a
    /\ blocks = Last.pre.blocks

\* RTS has returned to an RTI, which has run to the end: the memory is as
\* before the two
C25_Returns ==
    /\ Len(hist) = 2
    /\ Executes(1, {\h60}) /\ hist[1].err = NoErr
    /\ Executes(2, {\h40}) /\ hist[2].err = NoErr
    /\ blocks = hist[1].pre.blocks

\* a store has changed a byte: STA $0000 with a = $99
C25_StoreWrites ==
    /\ Len(hist) = 1 /\ Executes(1, {\h8D}) /\ Last.err = NoErr
    /\ Last.pre.a = \h99 /\ Last.trace[4] = <<"w", \h0000, \h99>>
    /\ ByteAt(Last.pre.blocks, \h0000) # \h99
    /\ ByteAt(blocks, \h0000) = \h99

\* BRK has pushed three bytes before failing or succeeding, INC has
\* changed its operand, ASL on the accumulator has changed no byte
C25_PushAndModify ==
    /\ Len(hist) = 2
    /\ Executes(1, {\h0A}) /\ Post(1).blocks = hist[1].pre.blocks
    /\ Executes(2, {\h00, \hEE, \hE6}) /\ blocks # hist[2].pre.blocks

====
